---- MODULE Spec2Model ----
(***************************************************************************)
(* The annotation backend (projectmanagement + annotators) as a state      *)
(* machine over its relational tables.  Every table is a set of rows, each *)
(* row a record with the model's columns; primary keys are auto-increment  *)
(* counters that never reuse a value.  An optional (nullable / possibly    *)
(* absent) value is a sequence of length at most one: <<>> is None and     *)
(* <<v>> is the value v.                                                   *)
(***************************************************************************)
EXTENDS Integers, Sequences, FiniteSets, TLC

\* ------------------------------------------------------------------ bounds
MaxCreatedProjects == 1   \* projects created through the API
MaxUnannotated == 2       \* imported rows ever written
MaxEntries == 2           \* entries ever written
MaxBatch == 2             \* rows of one upload
MaxAnnotators == 2        \* annotator rows ever written
MaxInFlight == 2          \* invitations between their check and their write

\* ------------------------------------------------------------- value sets
None == <<>>
Some(v) == <<v>>
IsNone(o) == o = <<>>
Val(o) == o[1]

Kinds == {"TC", "MTA", "MTF", "NER"}
Tables == {"project", "category", "unannotated", "entry", "annotator",
           "textHighlight", "nerTextHighlight"}

VARIABLES
    account,           \* auth user rows: [username, email, is_active]
    project,           \* Project rows: [id, kind, name, administrators]
    category,          \* Category rows: [id, project, name, key_binding]
    unannotated,       \* UnannotatedProjectEntry rows (all subtypes)
    entry,             \* ProjectEntry rows (all subtypes)
    annotator,         \* Annotator rows (PublicAnnotator | PrivateAnnotator)
    textHighlight,     \* TextHighlight rows, with the entry they are linked to
    nerTextHighlight,  \* NERTextHighlight rows, with the entry they are linked to
    nextId,            \* the auto-increment counter of every table
    resp,              \* the last request and the response it got
    imp,               \* an import request in progress (interleaved runs only)
    inv                \* invitations between their check and their write (same)

vars == <<account, project, category, unannotated, entry, annotator,
          textHighlight, nerTextHighlight, nextId, resp, imp, inv>>

db == <<account, project, category, unannotated, entry, annotator,
        textHighlight, nerTextHighlight, nextId>>

\* ---------------------------------------------------------------- queries
\* Project.objects.get(url=project_url): the project's url stands for its id.
ProjectByUrl(url) == {p \in project : p.id = url}

\* An administrator check that lets every contributor through (faulty
\* variant).
EveryContributorIsAdmin(p, user) == TRUE

\* Project.contributor_is_admin
contributor_is_admin(p, user) == user \in p.administrators

\* Project.imported_texts
imported_texts(pid) == {u \in unannotated : u.project = pid}

\* Project.entries
entries(pid) == {e \in entry : e.project = pid}

\* Project.private_annotators
private_annotators(pid) ==
    {a \in annotator : a.type = "private" /\ a.project = pid}

\* Category.objects.filter(project=self) / .get(project=self, name=name)
categories(pid) == {c \in category : c.project = pid}
CategoryByName(pid, name) == {c \in category : c.project = pid /\ c.name = name}

\* A lookup with project=self: the faulty variant drops the project filter.
GetSourceAnyProject(pid, sid) == {u \in unannotated : u.id = sid}

\* UnannotatedProjectEntry.objects.get(id=..., project=self); {} is DoesNotExist
GetSource(pid, sid) == {u \in unannotated : u.id = sid /\ u.project = pid}

\* Project.get_annotators_annotations without the annotator filter (faulty variant).
AnnotationsOfAnyAnnotator(pid, aid) == {e \in entry : e.project = pid}

\* Project.get_annotators_annotations
get_annotators_annotations(pid, aid) ==
    {e \in entry : e.project = pid /\ e.annotator = aid}

\* The only element of a one-row result.
TheOne(S) == CHOOSE x \in S : TRUE

\* A set of rows with ids as the sequence ordered by id.
RECURSIVE ById(_)
ById(S) ==
    IF S = {} THEN <<>>
    ELSE LET m == CHOOSE x \in S : \A y \in S : x.id <= y.id
         IN <<m>> \o ById(S \ {m})

\* --------------------------------------------------------------- add_entry
\* What add_entry leaves behind: the response and the tables it wrote.
\* Every objects.create() commits on its own (no transaction.atomic in the
\* handlers), so rows written before an exception stay.
Kept(status, detail) ==
    [status |-> status, detail |-> detail, entry |-> entry,
     textHighlight |-> textHighlight, nerTextHighlight |-> nerTextHighlight,
     nextId |-> nextId]

\* unannotated_source.pre_annotations raises when the TC source's
\* pre_annotation row is gone (self.pre_annotation.name on a dangling key).
PreAnnotationsRaises(u) ==
    /\ ~IsNone(u.pre_annotation)
    /\ ~\E c \in category : c.id = Val(u.pre_annotation)

NewEntry(pid, src, aid, classification, score) ==
    [id |-> nextId["entry"], project |-> pid, unannotated_source |-> src.id,
     annotator |-> aid, classification |-> classification, score |-> score]

\* TextClassificationProject.add_entry
TCAddEntry(pid, aid, data) ==
    IF IsNone(data.payload.category_name)
    THEN Kept(404, "Missing category name in payload")
    ELSE IF CategoryByName(pid, Val(data.payload.category_name)) = {}
    THEN Kept(404, "Category does not exist in project")
    ELSE IF GetSource(pid, data.unannotated_source) = {}
    THEN Kept(404, "Unannotated source does not exist in project")
    ELSE LET cat == TheOne(CategoryByName(pid, Val(data.payload.category_name)))
             src == TheOne(GetSource(pid, data.unannotated_source))
             new == NewEntry(pid, src, aid, Some(cat.id), None)
         IN [Kept(IF PreAnnotationsRaises(src) THEN 500 ELSE 200,
                  IF PreAnnotationsRaises(src) THEN "Category.DoesNotExist"
                                               ELSE "created")
             EXCEPT !.entry = entry \cup {new},
                    !.nextId = [nextId EXCEPT !["entry"] = @ + 1]]

\* The NER integrity check of one highlight: "" when it passes.
NERHighlightError(pid, h) ==
    IF IsNone(h.beginning) \/ IsNone(h.end) \/ IsNone(h.category)
    THEN "Missing data"
    ELSE IF CategoryByName(pid, Val(h.category)) = {}
    THEN "Category not found in project"
    ELSE ""

\* The first failing highlight of the list, 0 when none fails.
FirstNERError(pid, hs) ==
    IF \E i \in 1..Len(hs) : NERHighlightError(pid, hs[i]) # ""
    THEN CHOOSE i \in 1..Len(hs) :
            /\ NERHighlightError(pid, hs[i]) # ""
            /\ \A j \in 1..(i - 1) : NERHighlightError(pid, hs[j]) = ""
    ELSE 0

\* NamedEntityRecognitionProject.add_entry
NERAddEntry(pid, aid, data) ==
    IF IsNone(data.payload.ner_text_highlights)
    THEN Kept(400, "Missing ner_text_highlights data in request")
    ELSE IF GetSource(pid, data.unannotated_source) = {}
    THEN Kept(404, "Unannotated source does not exist in project")
    ELSE LET hs == Val(data.payload.ner_text_highlights)
             bad == FirstNERError(pid, hs)
             src == TheOne(GetSource(pid, data.unannotated_source))
             new == NewEntry(pid, src, aid, None, None)
             rows == {[id |-> nextId["nerTextHighlight"] + i - 1,
                       entry |-> new.id,
                       span_start |-> Val(hs[i].beginning),
                       span_end |-> Val(hs[i].end),
                       category |-> TheOne(CategoryByName(pid, Val(hs[i].category))).id]
                      : i \in 1..Len(hs)}
         IN IF bad # 0
            THEN Kept(IF NERHighlightError(pid, hs[bad]) = "Missing data"
                      THEN 400 ELSE 404,
                      NERHighlightError(pid, hs[bad]))
            ELSE [Kept(200, "created")
                  EXCEPT !.entry = entry \cup {new},
                         !.nerTextHighlight = nerTextHighlight \cup rows,
                         !.nextId = [nextId EXCEPT
                                        !["entry"] = @ + 1,
                                        !["nerTextHighlight"] = @ + Len(hs)]]

\* MachineTranslationProject.machine_translation_variation
machine_translation_variation(kind) ==
    IF kind = "MTA" THEN "adequacy" ELSE "fluency"

\* One pass of a highlight loop of MachineTranslationProject.add_entry over
\* the list hs, linking to entry eid through `field`.  acc carries the rows
\* written so far, the next id and whether a create raised: span_start,
\* span_end and category are NOT NULL columns, so TextHighlight.objects.create
\* with a None among them raises IntegrityError and the handler ends there.
RECURSIVE CreateHighlights(_, _, _, _)
CreateHighlights(hs, eid, field, acc) ==
    IF hs = <<>> \/ acc.raised THEN acc
    ELSE LET h == Head(hs)
             withRef == /\ field = "target"
                        /\ h.category = Some("Mistranslation")
                        /\ ~IsNone(h.mistranslation_source)
             ms == Val(h.mistranslation_source)
             refRaises == withRef /\ (IsNone(ms.start) \/ IsNone(ms.end))
             refRow == [id |-> acc.next, entry |-> 0, field |-> "reference",
                        span_start |-> Val(ms.start), span_end |-> Val(ms.end),
                        category |-> "mistranslation-reference",
                        mistranslation_source |-> None]
             afterRef == IF withRef /\ ~refRaises
                         THEN [acc EXCEPT !.rows = @ \cup {refRow},
                                          !.next = @ + 1]
                         ELSE acc
             raises == IsNone(h.beginning) \/ IsNone(h.end) \/ IsNone(h.category)
             row == [id |-> afterRef.next, entry |-> eid, field |-> field,
                     span_start |-> Val(h.beginning), span_end |-> Val(h.end),
                     category |-> Val(h.category),
                     mistranslation_source |->
                        IF withRef THEN Some(refRow.id) ELSE None]
         IN IF refRaises THEN [acc EXCEPT !.raised = TRUE]
            ELSE IF raises THEN [afterRef EXCEPT !.raised = TRUE]
            ELSE CreateHighlights(Tail(hs), eid, field,
                    [afterRef EXCEPT !.rows = @ \cup {row}, !.next = @ + 1])

OptList(o) == IF IsNone(o) THEN <<>> ELSE Val(o)

\* MachineTranslationProject.add_entry
MTAddEntry(pid, kind, aid, data) ==
    IF IsNone(data.payload.score)
    THEN Kept(400, "Missing adequacy/fluency data in request")
    ELSE IF GetSource(pid, data.unannotated_source) = {}
    THEN Kept(404, "Unannotated source does not exist in project")
    ELSE LET src == TheOne(GetSource(pid, data.unannotated_source))
             new == NewEntry(pid, src, aid, None, data.payload.score)
             start == [rows |-> {}, next |-> nextId["textHighlight"],
                       raised |-> FALSE]
             target == CreateHighlights(
                          OptList(data.payload.target_text_highlights),
                          new.id, "target", start)
             source == IF machine_translation_variation(kind) = "adequacy"
                       THEN CreateHighlights(
                               OptList(data.payload.source_text_highlights),
                               new.id, "source", target)
                       ELSE target
         IN [Kept(IF source.raised THEN 500 ELSE 200,
                  IF source.raised THEN "IntegrityError" ELSE "created")
             EXCEPT !.entry = entry \cup {new},
                    !.textHighlight = textHighlight \cup source.rows,
                    !.nextId = [nextId EXCEPT !["entry"] = @ + 1,
                                              !["textHighlight"] = source.next]]

\* Project.add_entry, dispatched on the project's concrete subtype.
add_entry(p, aid, data) ==
    CASE p.kind = "TC" -> TCAddEntry(p.id, aid, data)
      [] p.kind = "NER" -> NERAddEntry(p.id, aid, data)
      [] OTHER -> MTAddEntry(p.id, p.kind, aid, data)

\* ------------------------------------------------- add_unannotated_entries
\* An uploaded row is a dict over the columns below (an absent key is None)
\* or not a dict at all.  The request names the columns to read:
\* fields = [text_field, value_field, context_field, mt_system_translation],
\* the last three optional.
Columns == {"text", "ctx", "cat", "mt"}

\* `name in entry` for an optional column name (None is never a key).
HasKey(row, name) == /\ ~IsNone(name)
                     /\ Val(name) \in Columns
                     /\ ~IsNone(row[Val(name)])

\* entry.get(name, None)
GetKey(row, name) == IF HasKey(row, name) THEN row[Val(name)] ELSE None

\* The statement at which the validation loop stops on one row, "" when the
\* row passes.  The order of the checks is the order of the code.
TCRowError(pid, row, fields) ==
    IF ~row.dict THEN "Uploaded data is not in a list of dictionaries format"
    ELSE IF ~IsNone(fields.value_field) /\ ~HasKey(row, fields.value_field)
    THEN "KeyError"
    ELSE IF /\ ~IsNone(fields.value_field)
            /\ CategoryByName(pid, Val(GetKey(row, fields.value_field))) = {}
    THEN "Uploaded data contains category that does not exist in project"
    ELSE IF ~IsNone(fields.context_field) /\ ~HasKey(row, fields.context_field)
    THEN "Context field provided, but row with index is missing context value"
    ELSE IF ~HasKey(row, Some(fields.text_field))
    THEN "Text field missing from row with index"
    ELSE ""

NERRowError(pid, row, fields) ==
    IF ~row.dict THEN "Uploaded data is not in a list of dictionaries format"
    ELSE IF ~IsNone(fields.context_field) /\ ~HasKey(row, fields.context_field)
    THEN "Context field provided, but row with index is missing context value"
    ELSE IF ~HasKey(row, Some(fields.text_field))
    THEN "Text field missing from row with index"
    ELSE ""

\* text_field = {'mt_system_translation': text_field}
MTFRowError(pid, row, fields) ==
    IF ~row.dict THEN "Uploaded data is not in a list of dictionaries format"
    ELSE IF ~HasKey(row, Some(fields.text_field))
    THEN "Reference translation field missing from row with index"
    ELSE ""

\* text_field = {'reference_field': text_field,
\*               'mt_system_translation': mt_system_translation}
MTARowError(pid, row, fields) ==
    IF ~row.dict THEN "Uploaded data is not in a list of dictionaries format"
    ELSE IF ~HasKey(row, Some(fields.text_field))
    THEN "Reference translation field missing from row with index"
    ELSE IF ~HasKey(row, fields.mt_system_translation)
    THEN "Reference translation field missing from row with index"
    ELSE ""

RowError(p, row, fields) ==
    CASE p.kind = "TC" -> TCRowError(p.id, row, fields)
      [] p.kind = "NER" -> NERRowError(p.id, row, fields)
      [] p.kind = "MTF" -> MTFRowError(p.id, row, fields)
      [] OTHER -> MTARowError(p.id, row, fields)

\* The messages that carry f'... index {index}'.
NamesIndex(detail) ==
    detail \in {"Context field provided, but row with index is missing context value",
                "Text field missing from row with index",
                "Reference translation field missing from row with index"}

\* An uncaught exception is a 500; every return of the loop is a 400.
ErrorStatus(detail) ==
    IF detail \in {"KeyError", "Category.DoesNotExist", "IntegrityError",
                   "TypeError", "FileNotFoundError", "NotImplementedError",
                   "AttributeError", "ProjectEntry.DoesNotExist"}
    THEN 500 ELSE 400

\* The 1-based position of the first row the validation loop stops at, 0
\* when every row passes.
FirstRowError(p, data, fields) ==
    IF \E i \in 1..Len(data) : RowError(p, data[i], fields) # ""
    THEN CHOOSE i \in 1..Len(data) :
            /\ RowError(p, data[i], fields) # ""
            /\ \A j \in 1..(i - 1) : RowError(p, data[j], fields) = ""
    ELSE 0

\* A second loop that raises on every pre-annotated row (faulty variant).
PersistRaisesOnEveryCategory(p, row, fields) ==
    p.kind = "TC" /\ ~IsNone(fields.value_field)

\* The second loop's Category.objects.get of a TC row raises when the
\* category is gone by then.
PersistRaises(p, row, fields) ==
    /\ p.kind = "TC"
    /\ ~IsNone(fields.value_field)
    /\ CategoryByName(p.id, Val(GetKey(row, fields.value_field))) = {}

\* A created row that drops the system translation (faulty variant).
NewUnannotatedUntranslated(p, row, fields, id) ==
    [id |-> id, project |-> p.id,
     text |-> Val(GetKey(row, Some(fields.text_field))),
     context |-> GetKey(row, fields.context_field),
     pre_annotation |->
        IF p.kind = "TC" /\ ~IsNone(fields.value_field)
        THEN Some(TheOne(CategoryByName(
                     p.id, Val(GetKey(row, fields.value_field)))).id)
        ELSE None,
     mt_system_translation |-> None]

\* The row <Subtype>UnannotatedEntry.objects.create(...) writes.
NewUnannotated(p, row, fields, id) ==
    [id |-> id, project |-> p.id,
     text |-> Val(GetKey(row, Some(fields.text_field))),
     context |-> GetKey(row, fields.context_field),
     pre_annotation |->
        IF p.kind = "TC" /\ ~IsNone(fields.value_field)
        THEN Some(TheOne(CategoryByName(
                     p.id, Val(GetKey(row, fields.value_field)))).id)
        ELSE None,
     mt_system_translation |->
        IF p.kind = "MTA" THEN GetKey(row, fields.mt_system_translation)
        ELSE None]

\* The second loop over the rows from position i on; acc carries the rows
\* written, the next id and whether a create raised.
RECURSIVE PersistRows(_, _, _, _, _)
PersistRows(p, data, fields, i, acc) ==
    IF i > Len(data) \/ acc.raised THEN acc
    ELSE IF PersistRaises(p, data[i], fields)
    THEN [acc EXCEPT !.raised = TRUE]
    ELSE PersistRows(p, data, fields, i + 1,
            [acc EXCEPT !.rows = @ \cup {NewUnannotated(p, data[i], fields, acc.next)},
                        !.next = @ + 1])

\* A two-phase import that writes the rows before the failing one (faulty variant).
ImportWritingValidPrefix(p, data, fields) ==
    LET bad == FirstRowError(p, data, fields)
        upto == IF bad = 0 THEN data ELSE SubSeq(data, 1, bad - 1)
        done == PersistRows(p, upto, fields, 1,
                    [rows |-> {}, next |-> nextId["unannotated"], raised |-> FALSE])
    IN [status |-> IF bad = 0 THEN 200
                   ELSE ErrorStatus(RowError(p, data[bad], fields)),
        detail |-> IF bad = 0 THEN "Succesfully created unannotated entries"
                   ELSE RowError(p, data[bad], fields),
        index |-> IF bad # 0 /\ NamesIndex(RowError(p, data[bad], fields))
                  THEN Some(bad - 1) ELSE None,
        count |-> IF bad = 0 THEN Some(Len(data)) ELSE None,
        unannotated |-> unannotated \cup done.rows,
        nextId |-> [nextId EXCEPT !["unannotated"] = done.next]]

\* <Subtype>Project.add_unannotated_entries: validate every row, then write.
add_unannotated_entries(p, data, fields) ==
    LET bad == FirstRowError(p, data, fields)
        done == PersistRows(p, data, fields, 1,
                    [rows |-> {}, next |-> nextId["unannotated"], raised |-> FALSE])
    IN IF bad # 0
       THEN [status |-> ErrorStatus(RowError(p, data[bad], fields)),
             detail |-> RowError(p, data[bad], fields),
             index |-> IF NamesIndex(RowError(p, data[bad], fields))
                       THEN Some(bad - 1) ELSE None,
             count |-> None,
             unannotated |-> unannotated, nextId |-> nextId]
       ELSE [status |-> IF done.raised THEN 500 ELSE 200,
             detail |-> IF done.raised THEN "Category.DoesNotExist"
                        ELSE "Succesfully created unannotated entries",
             index |-> None,
             count |-> IF done.raised THEN None ELSE Some(Len(data)),
             unannotated |-> unannotated \cup done.rows,
             nextId |-> [nextId EXCEPT !["unannotated"] = done.next]]

\* -------------------------------------------------------------- completion
\* float(completed_annotations): completed_annotations is the QuerySet that
\* get_annotators_annotations returns, not its count, and float() of a
\* QuerySet raises TypeError.
FloatOfQuerySet(rows) == [raised |-> TRUE, value |-> 0]

\* A completion that answers 0.0 for an empty project (faulty variant).
CompletionZeroWhenEmpty(a) ==
    IF Cardinality(imported_texts(a.project)) = 0
    THEN [raised |-> FALSE, value |-> 0]
    ELSE FloatOfQuerySet(get_annotators_annotations(a.project, a.id))

\* PrivateAnnotator.completion, in hundredths of a percent (100.0 is 10000).
completion(a) ==
    LET completed_annotations == get_annotators_annotations(a.project, a.id)
        annotations_total == Cardinality(imported_texts(a.project))
    IN IF annotations_total = 0
       THEN [raised |-> FALSE, value |-> 10000]
       ELSE FloatOfQuerySet(completed_annotations)

\* The remaining-entries query of
\* get_remaining_entries_for_annotation_private_annotator: the ids of
\* project.imported_texts.exclude(id__in=annotated), in id order.
remaining_to_be_annotated(a) ==
    LET annotated == {e.unannotated_source :
                        e \in get_annotators_annotations(a.project, a.id)}
        rows == {u \in imported_texts(a.project) : u.id \notin annotated}
        byId == ById(rows)
    IN [i \in 1..Len(byId) |-> byId[i].id]

\* PrivateAnnotator.objects.get(token=token)
AnnotatorByToken(token) ==
    {a \in annotator : a.type = "private" /\ a.token = Some(token)}

\* PublicAnnotator.objects.get(contributor=request.user)
PublicAnnotatorOf(user) ==
    {a \in annotator : a.type = "public" /\ a.contributor = user}

\* ------------------------------------------------------------------ inputs
\* Highlight dicts of a payload: complete, without an end, and a
\* mistranslation carrying its source span.
Highlight(b, e, c, ms) ==
    [beginning |-> b, end |-> e, category |-> c, mistranslation_source |-> ms]
CompleteHighlight == Highlight(Some(0), Some(1), Some("Omission"), None)
NoEndHighlight == Highlight(Some(0), None, Some("Omission"), None)
MistranslationHighlight ==
    Highlight(Some(0), Some(1), Some("Mistranslation"),
              Some([start |-> Some(2), end |-> Some(3)]))
NERHighlight == Highlight(Some(0), Some(1), Some("category1"), None)
NERNoEndHighlight == Highlight(Some(0), None, Some("category1"), None)
NERUnknownHighlight == Highlight(Some(0), Some(1), Some("nope"), None)

Payload(c, s, t, src, ner) ==
    [category_name |-> c, score |-> s, target_text_highlights |-> t,
     source_text_highlights |-> src, ner_text_highlights |-> ner]

\* The payloads a request may carry, by the kind of the project they are
\* sent to (keys the kind's add_entry never reads are left out).
Payloads(kind) ==
    CASE kind = "TC" ->
            {Payload(c, None, None, None, None) :
                c \in {None, Some("category1"), Some("nope")}}
      [] kind = "NER" ->
            {Payload(None, None, None, None, n) :
                n \in {None, Some(<<NERHighlight>>),
                       Some(<<NERHighlight, NERNoEndHighlight>>),
                       Some(<<NERUnknownHighlight>>)}}
      [] OTHER ->
            {Payload(None, None, None, None, None),
             Payload(None, Some(0), None, None, None),
             Payload(None, Some(5), Some(<<MistranslationHighlight>>), None, None),
             Payload(None, Some(5), Some(<<CompleteHighlight, NoEndHighlight>>),
                     None, None),
             Payload(None, Some(5), None, Some(<<CompleteHighlight>>), None)}

\* Uploaded rows.
Row(d, t, x, c, m) == [dict |-> d, text |-> t, ctx |-> x, cat |-> c, mt |-> m]
Rows ==
    {Row(TRUE, Some("foo"), Some("context"), Some("category1"), Some("fu")),
     Row(TRUE, Some("bar"), Some("context"), Some("nope"), None),
     Row(TRUE, None, None, None, Some("fu")),
     Row(FALSE, None, None, None, None)}

\* Every list of at most n rows.
RECURSIVE Batches(_)
Batches(n) ==
    IF n = 0 THEN {<<>>}
    ELSE Batches(n - 1) \cup
         {Append(b, r) : b \in {x \in Batches(n - 1) : Len(x) = n - 1}, r \in Rows}

FieldChoices ==
    {[text_field |-> "text", value_field |-> v, context_field |-> c,
      mt_system_translation |-> m] :
        v \in {None, Some("cat")}, c \in {None, Some("ctx")},
        m \in {None, Some("mt")}}

\* A data row of a CSV file whose header is text,ctx,cat,mt.
CsvRow == Row(TRUE, Some("foo"), Some("context"), Some("category1"), Some("fu"))

\* An upload: its content type, whether its JSON is an array, and its rows
\* (for text/csv, the data rows under the header line).
Uploads ==
    {[content_type |-> t, is_list |-> l, rows |-> b] :
        t \in {"application/json"}, l \in {TRUE}, b \in Batches(MaxBatch)}
    \cup {[content_type |-> "application/json", is_list |-> FALSE, rows |-> <<>>],
          [content_type |-> "text/plain", is_list |-> FALSE, rows |-> <<>>]}
    \cup {[content_type |-> "text/csv", is_list |-> FALSE,
           rows |-> [i \in 1..n |-> CsvRow]] : n \in 0..MaxBatch}

\* The columns an import of bare texts names, those of an import of texts
\* with their system translation (which every kind accepts), and an upload of
\* one such text.
PlainFields ==
    [text_field |-> "text", value_field |-> None, context_field |-> None,
     mt_system_translation |-> None]
TranslatedFields == [PlainFields EXCEPT !.mt_system_translation = Some("mt")]
AllFields ==
    [text_field |-> "text", value_field |-> Some("cat"),
     context_field |-> Some("ctx"), mt_system_translation |-> Some("mt")]
OneText ==
    [content_type |-> "application/json", is_list |-> TRUE,
     rows |-> <<Row(TRUE, Some("foo"), None, None, Some("fu"))>>]

\* ------------------------------------------------------------------- state
\* The seeded database: an administrator and the anonymous fallback
\* account, one project of every kind administered by "admin", and the
\* categories of the classification and the NER project.
SeedProjects ==
    {[id |-> 1, kind |-> "TC", name |-> "name", administrators |-> {"admin"}],
     [id |-> 2, kind |-> "MTA", name |-> "name", administrators |-> {"admin"}],
     [id |-> 3, kind |-> "MTF", name |-> "name", administrators |-> {"admin"}],
     [id |-> 4, kind |-> "NER", name |-> "name", administrators |-> {"admin"}]}

SeedCategories ==
    {[id |-> 1, project |-> 1, name |-> "category1",
      key_binding |-> None],
     [id |-> 2, project |-> 1, name |-> "category2",
      key_binding |-> None],
     [id |-> 3, project |-> 4, name |-> "category1",
      key_binding |-> None]}

\* No import request in progress.  An import in progress holds the project
\* it fetched, the uploaded rows, the column names, the loop it is in (pc),
\* the 1-based position of the row it handles next, the id counter it found
\* (first), and, once it has answered (pc = "done"), its response.
Idle ==
    [pc |-> "idle",
     project |-> [id |-> 0, kind |-> "TC", name |-> "name", administrators |-> {}],
     data |-> <<>>, fields |-> PlainFields, i |-> 0, first |-> 0,
     status |-> 0, detail |-> ""]

\* A response: the handler that answered, its status, which of its return
\* statements (or which exception) produced it, the row index and the row
\* count its message names, and the value or listing it carries.
Reply(op, status, detail) ==
    [op |-> op, status |-> status, detail |-> detail,
     index |-> None, count |-> None, result |-> None]

Init ==
    /\ account = {[username |-> "admin", email |-> "admin@ucl.ac.uk", is_active |-> TRUE],
                  [username |-> "anon", email |-> "anon@ucl.ac.uk", is_active |-> TRUE]}
    /\ project = SeedProjects
    /\ category = SeedCategories
    /\ unannotated = {}
    /\ entry = {}
    /\ annotator = {}
    /\ textHighlight = {}
    /\ nerTextHighlight = {}
    /\ nextId = [t \in Tables |->
                    CASE t = "project" -> Cardinality(SeedProjects) + 1
                      [] t = "category" -> Cardinality(SeedCategories) + 1
                      [] OTHER -> 1]
    /\ resp = Reply("none", 0, "")
    /\ imp = Idle
    /\ inv = <<>>

Urls == 1..(Cardinality(SeedProjects) + MaxCreatedProjects)
SourceIds == 1..MaxUnannotated
EntryIds == 1..MaxEntries
Tokens == 1..MaxAnnotators

\* ------------------------------------------------------- entry endpoints
\* The tables add_entry wrote and the response, after the annotator table
\* became `annotators`.
AfterAddEntry(op, annotators, r) ==
    /\ entry' = r.entry
    /\ textHighlight' = r.textHighlight
    /\ nerTextHighlight' = r.nerTextHighlight
    /\ nextId' = [r.nextId EXCEPT !["annotator"] =
                    @ + Cardinality(annotators \ annotator)]
    /\ annotator' = annotators
    /\ resp' = Reply(op, r.status, r.detail)
    /\ UNCHANGED <<account, project, category, unannotated, imp, inv>>

\* create_entry: the caller's PublicAnnotator is fetched or created, then
\* project.add_entry runs.
create_entry(user, url, data) ==
    IF ProjectByUrl(url) = {}
    THEN /\ resp' = Reply("create_entry", 404, "Project does not exist")
         /\ UNCHANGED <<db, imp, inv>>
    ELSE LET p == TheOne(ProjectByUrl(url))
             made == [id |-> nextId["annotator"], type |-> "public",
                      contributor |-> user, project |-> 0, token |-> None,
                      inviting_contributor |-> ""]
             ann == IF PublicAnnotatorOf(user) = {} THEN made
                    ELSE TheOne(PublicAnnotatorOf(user))
         IN /\ ann.id <= MaxAnnotators
            /\ AfterAddEntry("create_entry", annotator \cup {ann},
                             add_entry(p, ann.id, data))

\* create_private_annotators_entry
create_private_annotators_entry(token, data) ==
    IF AnnotatorByToken(token) = {}
    THEN /\ resp' = Reply("create_private_annotators_entry", 404,
                          "Annotator not found")
         /\ UNCHANGED <<db, imp, inv>>
    ELSE LET ann == TheOne(AnnotatorByToken(token))
             p == TheOne(ProjectByUrl(ann.project))
         IN AfterAddEntry("create_private_annotators_entry", annotator,
                          add_entry(p, ann.id, data))

\* ------------------------------------------------------------------ import
\* import_unannotated.  pd.read_csv is handed the decoded upload itself, which
\* pandas takes for a path: it raises FileNotFoundError unless a file of that
\* name exists (file_at_path), and what it then returns goes through
\* to_json(orient='records'), a str, which the list check refuses.
import_unannotated(url, fields, file, file_at_path) ==
    LET fail(status, detail) ==
            /\ resp' = Reply("import_unannotated", status, detail)
            /\ UNCHANGED <<db, imp, inv>>
    IN IF ProjectByUrl(url) = {} THEN fail(404, "Project does not exist")
       ELSE IF file.content_type = "text/csv"
       THEN IF file_at_path
            THEN fail(400, "Uploaded data is not in a list of records format")
            ELSE fail(500, "FileNotFoundError")
       ELSE IF file.content_type # "application/json"
       THEN fail(400, "Uploaded data type is not supported")
       ELSE IF ~file.is_list
       THEN fail(400, "Uploaded data is not in a list of records format")
       ELSE LET r == add_unannotated_entries(TheOne(ProjectByUrl(url)),
                                             file.rows, fields)
            IN /\ r.nextId["unannotated"] <= MaxUnannotated + 1
               /\ unannotated' = r.unannotated
               /\ nextId' = r.nextId
               /\ resp' = [Reply("import_unannotated", r.status, r.detail)
                           EXCEPT !.index = r.index, !.count = r.count]
               /\ UNCHANGED <<account, project, category, entry, annotator,
                              textHighlight, nerTextHighlight, imp, inv>>

ImportUnannotated ==
    \E url \in Urls, fields \in {PlainFields, AllFields}, file \in Uploads,
       file_at_path \in BOOLEAN :
        /\ file.content_type # "text/csv" => file_at_path
        /\ import_unannotated(url, fields, file, file_at_path)

\* ------------------------------------------------- progress of an annotator
\* get_remaining_entries_for_annotation_private_annotator: every listed row
\* is serialised with its pre_annotations, which raises on a pre_annotation
\* whose Category row is gone.
get_remaining_entries(token) ==
    /\ UNCHANGED <<db, imp, inv>>
    /\ IF AnnotatorByToken(token) = {}
       THEN resp' = Reply("get_remaining_entries", 404, "Annotator does not exist")
       ELSE LET a == TheOne(AnnotatorByToken(token))
                listing == remaining_to_be_annotated(a)
            IN IF \E u \in imported_texts(a.project) :
                     /\ \E i \in 1..Len(listing) : listing[i] = u.id
                     /\ PreAnnotationsRaises(u)
               THEN resp' = Reply("get_remaining_entries", 500,
                                  "Category.DoesNotExist")
               ELSE resp' = [Reply("get_remaining_entries", 200, "listed")
                             EXCEPT !.result = Some(listing)]

GetRemainingEntries == \E token \in Tokens : get_remaining_entries(token)

\* get_project_private_annotator: the annotator's row with its completion.
get_project_private_annotator(token) ==
    /\ UNCHANGED <<db, imp, inv>>
    /\ IF AnnotatorByToken(token) = {}
       THEN resp' = Reply("get_project_private_annotator", 404,
                          "Private Annotator does not exist")
       ELSE LET a == TheOne(AnnotatorByToken(token))
                c == completion(a)
            IN resp' = [Reply("get_project_private_annotator",
                              IF c.raised THEN 500 ELSE 200,
                              IF c.raised THEN "TypeError" ELSE "annotator")
                        EXCEPT !.result = IF c.raised THEN None ELSE Some(c.value)]

GetProjectPrivateAnnotator ==
    \E token \in Tokens : get_project_private_annotator(token)

\* invite_annotator: the contributor is fetched by username and email or
\* created (a taken username raises IntegrityError); the PrivateAnnotator row
\* is written with a fresh uuid4 token, and the response reads its completion.
invite_annotator(user, url, data) ==
    LET fail(status, detail) ==
            /\ resp' = Reply("invite_annotator", status, detail)
            /\ UNCHANGED <<db, imp, inv>>
    IN IF ProjectByUrl(url) = {} THEN fail(404, "Project does not exist")
       ELSE IF ~contributor_is_admin(TheOne(ProjectByUrl(url)), user)
       THEN fail(401, "Contributor is not project adminstrator")
       ELSE IF /\ ~\E c \in account : c.username = data.username /\ c.email = data.email
               /\ \E c \in account : c.username = data.username
       THEN fail(404, "User with username already exists")
       ELSE IF \E a \in private_annotators(url) : a.contributor = data.username
       THEN fail(400, "Private Annotator is already invited to the project")
       ELSE LET made == [id |-> nextId["annotator"], type |-> "private",
                         contributor |-> data.username, project |-> url,
                         token |-> Some(nextId["annotator"]),
                         inviting_contributor |-> user]
                c == completion(made)
            IN /\ made.id <= MaxAnnotators
               /\ account' = account \cup
                    IF \E c2 \in account : c2.username = data.username THEN {}
                    ELSE {[username |-> data.username, email |-> data.email,
                           is_active |-> TRUE]}
               /\ annotator' = annotator \cup {made}
               /\ nextId' = [nextId EXCEPT !["annotator"] = @ + 1]
               /\ resp' = Reply("invite_annotator",
                                IF c.raised THEN 500 ELSE 200,
                                IF c.raised THEN "TypeError" ELSE "invited")
               /\ UNCHANGED <<project, category, unannotated, entry,
                              textHighlight, nerTextHighlight, imp, inv>>

\* invite_annotator when requests are handled concurrently, in the two
\* steps its database statements split it into.  The first runs up to the
\* 'already invited' test: the contributor is fetched or created, and a
\* request that passes the test is held in inv.
invite_check(user, url, data) ==
    LET fail(status, detail) ==
            /\ resp' = Reply("invite_annotator", status, detail)
            /\ UNCHANGED <<db, imp, inv>>
    IN IF ProjectByUrl(url) = {} THEN fail(404, "Project does not exist")
       ELSE IF ~contributor_is_admin(TheOne(ProjectByUrl(url)), user)
       THEN fail(401, "Contributor is not project adminstrator")
       ELSE IF /\ ~\E c \in account : c.username = data.username /\ c.email = data.email
               /\ \E c \in account : c.username = data.username
       THEN fail(404, "User with username already exists")
       ELSE IF \E a \in private_annotators(url) : a.contributor = data.username
       THEN fail(400, "Private Annotator is already invited to the project")
       ELSE /\ Len(inv) < MaxInFlight
            /\ account' = account \cup
                 IF \E c2 \in account : c2.username = data.username THEN {}
                 ELSE {[username |-> data.username, email |-> data.email,
                        is_active |-> TRUE]}
            /\ inv' = Append(inv, [user |-> user, project |-> url,
                                   contributor |-> data.username])
            /\ UNCHANGED <<project, category, unannotated, entry, annotator,
                           textHighlight, nerTextHighlight, nextId, resp, imp>>

\* The second step, of the i-th request held in inv: the PrivateAnnotator
\* row is written with a fresh uuid4 token, whatever rows were written since
\* the test, and the response reads its completion.
invite_create(i) ==
    LET r == inv[i]
        made == [id |-> nextId["annotator"], type |-> "private",
                 contributor |-> r.contributor, project |-> r.project,
                 token |-> Some(nextId["annotator"]),
                 inviting_contributor |-> r.user]
        c == completion(made)
        rest == SubSeq(inv, 1, i - 1) \o SubSeq(inv, i + 1, Len(inv))
    IN IF ProjectByUrl(r.project) = {}
       THEN /\ resp' = Reply("invite_annotator", 500, "IntegrityError")
            /\ inv' = rest
            /\ UNCHANGED <<db, imp>>
       ELSE /\ made.id <= MaxAnnotators
            /\ annotator' = annotator \cup {made}
            /\ nextId' = [nextId EXCEPT !["annotator"] = @ + 1]
            /\ inv' = rest
            /\ resp' = Reply("invite_annotator",
                             IF c.raised THEN 500 ELSE 200,
                             IF c.raised THEN "TypeError" ELSE "invited")
            /\ UNCHANGED <<account, project, category, unannotated, entry,
                           textHighlight, nerTextHighlight, imp>>

\* ------------------------------------------------------------ entry updates
\* <Subtype>ProjectEntry.update_with_data for an entry of a project of `kind`:
\* the response and the entry as saved.  `if update_data.adequacy:` is False
\* for an absent value and for 0.
update_with_data(e, kind, update_data) ==
    LET Truthy(o) == ~IsNone(o) /\ Val(o) # 0 IN
    CASE kind = "TC" ->
            IF IsNone(update_data.classification)
            THEN [status |-> 400, detail |-> "Missing classification in update data",
                  entry |-> e]
            ELSE IF CategoryByName(e.project, Val(update_data.classification)) = {}
            THEN [status |-> 404, detail |-> "Category does not exist in project",
                  entry |-> e]
            ELSE [status |-> 200, detail |-> "updated",
                  entry |-> [e EXCEPT !.classification =
                     Some(TheOne(CategoryByName(
                            e.project, Val(update_data.classification))).id)]]
      [] kind = "MTA" ->
            [status |-> 200, detail |-> "updated",
             entry |-> IF Truthy(update_data.adequacy)
                       THEN [e EXCEPT !.score = update_data.adequacy] ELSE e]
      [] kind = "MTF" ->
            [status |-> 200, detail |-> "updated",
             entry |-> IF Truthy(update_data.fluency)
                       THEN [e EXCEPT !.score = update_data.fluency] ELSE e]
      [] OTHER ->
            [status |-> 500, detail |-> "NotImplementedError", entry |-> e]

\* update_project_entry (administrators)
update_project_entry(user, url, eid, update_data) ==
    LET fail(status, detail) ==
            /\ resp' = Reply("update_project_entry", status, detail)
            /\ UNCHANGED <<db, imp, inv>>
    IN IF ProjectByUrl(url) = {} THEN fail(404, "Project does not exist")
       ELSE IF ~contributor_is_admin(TheOne(ProjectByUrl(url)), user)
       THEN fail(401, "Contributor is not project adminstrator")
       ELSE IF ~\E e \in entries(url) : e.id = eid
       THEN fail(404, "Entry not found")
       ELSE LET e == CHOOSE x \in entries(url) : x.id = eid
                r == update_with_data(e, TheOne(ProjectByUrl(url)).kind, update_data)
            IN /\ entry' = (entry \ {e}) \cup {r.entry}
               /\ resp' = Reply("update_project_entry", r.status, r.detail)
               /\ UNCHANGED <<account, project, category, unannotated, annotator,
                              textHighlight, nerTextHighlight, nextId, imp, inv>>

\* modify_annotators_entry (private annotators).  The lookup's except clause
\* names PrivateAnnotator.DoesNotExist, so a missing entry is an uncaught
\* ProjectEntry.DoesNotExist; the patch schema has no `classification`, so a
\* classification entry's update_with_data raises AttributeError.
modify_annotators_entry(token, eid, patch_data) ==
    LET fail(status, detail) ==
            /\ resp' = Reply("modify_annotators_entry", status, detail)
            /\ UNCHANGED <<db, imp, inv>>
    IN IF AnnotatorByToken(token) = {} THEN fail(404, "Annotator does not exist")
       ELSE LET a == TheOne(AnnotatorByToken(token))
                found == {e \in get_annotators_annotations(a.project, a.id) : e.id = eid}
                kind == TheOne(ProjectByUrl(a.project)).kind
            IN IF found = {} THEN fail(500, "ProjectEntry.DoesNotExist")
               ELSE IF kind = "TC" THEN fail(500, "AttributeError")
               ELSE LET r == update_with_data(TheOne(found), kind, patch_data)
                    IN /\ entry' = (entry \ found) \cup {r.entry}
                       /\ resp' = Reply("modify_annotators_entry", r.status, r.detail)
                       /\ UNCHANGED <<account, project, category, unannotated,
                                      annotator, textHighlight, nerTextHighlight,
                                      nextId, imp, inv>>

\* modify_annotators_highlight and delete_annotators_highlight share their
\* lookups: the annotator by token, the TextHighlight by id, and then
\* higlight.project_entry_set, an attribute TextHighlight does not have (its
\* reverse accessors are adequacy_source_text, fluency_source_text and
\* machinetranslationadequacyprojectentry_set): AttributeError, which no
\* except clause of the handlers names.
HighlightLookup(op, token, highlight_id) ==
    /\ UNCHANGED <<db, imp, inv>>
    /\ IF AnnotatorByToken(token) = {}
       THEN resp' = Reply(op, 404, "Annotator does not exist")
       ELSE IF ~\E h \in textHighlight : h.id = highlight_id
       THEN resp' = Reply(op, 404, "Higlight does not exist")
       ELSE resp' = Reply(op, 500, "AttributeError")

modify_annotators_highlight(token, patch_data) ==
    HighlightLookup("modify_annotators_highlight", token, patch_data.highlight_id)

delete_annotators_highlight(token, highlight_id) ==
    HighlightLookup("delete_annotators_highlight", token, highlight_id)

\* ---------------------------------------------------------- authentication
\* PublicAnnotatorAdminAndContributorAuth: request.user of a request with a
\* bearer token that verifies (the uid it decodes to stands for the token);
\* None without the header or with a token that does not verify.
PublicAnnotatorAdminAndContributorAuth(bearer) == bearer

\* PrivateAnnotatorAuth.authenticate: the contributor of the annotator with
\* this token when that account is active, None otherwise.
PrivateAnnotatorAuth(token) ==
    IF IsNone(token) \/ AnnotatorByToken(Val(token)) = {} THEN None
    ELSE LET a == TheOne(AnnotatorByToken(Val(token)))
         IN IF \E c \in account : c.username = a.contributor /\ c.is_active
            THEN Some(a.contributor)
            ELSE None

\* fallback_auth: the account named after the remote address (it exists
\* from the address's first request on); it always returns True.
fallback_auth(remote_addr) == Some(remote_addr)

\* NinjaAPI(auth=[...]): the authenticators are tried in order and the first
\* one that returns True settles request.user; the request is answered 401
\* only when none does.
authenticate(bearer, token, remote_addr) ==
    IF ~IsNone(PublicAnnotatorAdminAndContributorAuth(bearer))
    THEN PublicAnnotatorAdminAndContributorAuth(bearer)
    ELSE IF ~IsNone(PrivateAnnotatorAuth(token)) THEN PrivateAnnotatorAuth(token)
    ELSE fallback_auth(remote_addr)

\* A request of the annotation page: no bearer token, ?token= in the query,
\* sent from the address of the anonymous account; `handler` runs when the
\* request is authenticated.
TokenRequest(token, handler) ==
    IF IsNone(authenticate(None, Some(token), "anon"))
    THEN /\ resp' = Reply("authenticate", 401, "Unauthorized")
         /\ UNCHANGED <<db, imp, inv>>
    ELSE handler

\* ------------------------------------------------------------------ deletes
\* Deleting entries removes their rows and their many-to-many links; the
\* highlight rows themselves stay, linked to no entry.
Unlink(highlights, gone) ==
    {IF h.entry \in {e.id : e \in gone} THEN [h EXCEPT !.entry = 0] ELSE h :
        h \in highlights}

\* Whether a row left in the tables still points, through a key with
\* on_delete=DO_NOTHING, at one of the categories being deleted: the
\* classification of an entry, the pre_annotation of an imported text, the
\* category of a NER highlight.
Referenced(gone_cats, ents, unann, ner) ==
    LET ids == {c.id : c \in gone_cats} IN
    \/ \E e \in ents : ~IsNone(e.classification) /\ Val(e.classification) \in ids
    \/ \E u \in unann : ~IsNone(u.pre_annotation) /\ Val(u.pre_annotation) \in ids
    \/ \E h \in ner : h.category \in ids

\* delete_project_entry
delete_project_entry(user, url, eid) ==
    LET fail(status, detail) ==
            /\ resp' = Reply("delete_project_entry", status, detail)
            /\ UNCHANGED <<db, imp, inv>>
    IN IF ProjectByUrl(url) = {} THEN fail(404, "Project does not exist")
       ELSE IF ~contributor_is_admin(TheOne(ProjectByUrl(url)), user)
       THEN fail(401, "Contributor is not project adminstrator")
       ELSE IF ~\E e \in entries(url) : e.id = eid
       THEN fail(404, "Entry not found")
       ELSE LET gone == {e \in entries(url) : e.id = eid}
            IN /\ entry' = entry \ gone
               /\ textHighlight' = Unlink(textHighlight, gone)
               /\ nerTextHighlight' = Unlink(nerTextHighlight, gone)
               /\ resp' = Reply("delete_project_entry", 200, "Successfully deleted entry")
               /\ UNCHANGED <<account, project, category, unannotated,
                              annotator, nextId, imp, inv>>

\* delete_unannotated_project_entry: the entries judging the text go with it
\* (ProjectEntry.unannotated_source is on_delete=CASCADE).
delete_unannotated_project_entry(user, url, sid) ==
    LET fail(status, detail) ==
            /\ resp' = Reply("delete_unannotated_project_entry", status, detail)
            /\ UNCHANGED <<db, imp, inv>>
    IN IF ProjectByUrl(url) = {} THEN fail(404, "Project does not exist")
       ELSE IF ~contributor_is_admin(TheOne(ProjectByUrl(url)), user)
       THEN fail(401, "Contributor is not project adminstrator")
       ELSE IF GetSource(url, sid) = {}
       THEN fail(404, "Unannotated entry not found")
       ELSE LET gone == {e \in entry : e.unannotated_source = sid}
            IN /\ unannotated' = unannotated \ GetSource(url, sid)
               /\ entry' = entry \ gone
               /\ textHighlight' = Unlink(textHighlight, gone)
               /\ nerTextHighlight' = Unlink(nerTextHighlight, gone)
               /\ resp' = Reply("delete_unannotated_project_entry", 200,
                                "Successfully deleted unannotated entry")
               /\ UNCHANGED <<account, project, category, annotator, nextId, imp, inv>>

\* A delete_project that removes the project's row and nothing else (faulty
\* variant: no key cascades).
DeleteProjectRowOnly(user, url, fk_enforced) ==
    IF ProjectByUrl(url) = {}
    THEN /\ resp' = Reply("delete_project", 404, "Project does not exist")
         /\ UNCHANGED <<db, imp, inv>>
    ELSE IF ~contributor_is_admin(TheOne(ProjectByUrl(url)), user)
    THEN /\ resp' = Reply("delete_project", 401,
                          "Contributor is not project adminstrator")
         /\ UNCHANGED <<db, imp, inv>>
    ELSE /\ project' = project \ ProjectByUrl(url)
         /\ resp' = Reply("delete_project", 200, "Project deleted")
         /\ UNCHANGED <<account, category, unannotated, entry, annotator,
                        textHighlight, nerTextHighlight, nextId, imp, inv>>

\* delete_project: the project's categories, imported texts, entries and
\* private annotators (and the entries of those) cascade.  Where the cascade
\* would leave a DO_NOTHING key dangling, a database that enforces foreign
\* keys refuses the delete with IntegrityError and one that does not lets it
\* through (fk_enforced).
delete_project(user, url, fk_enforced) ==
    LET fail(status, detail) ==
            /\ resp' = Reply("delete_project", status, detail)
            /\ UNCHANGED <<db, imp, inv>>
        goneAnn == private_annotators(url)
        gone == {e \in entry : \/ e.project = url
                               \/ e.annotator \in {a.id : a \in goneAnn}}
        cats == category \ categories(url)
        ents == entry \ gone
        unann == unannotated \ imported_texts(url)
        ner == Unlink(nerTextHighlight, gone)
    IN IF ProjectByUrl(url) = {} THEN fail(404, "Project does not exist")
       ELSE IF ~contributor_is_admin(TheOne(ProjectByUrl(url)), user)
       THEN fail(401, "Contributor is not project adminstrator")
       ELSE IF fk_enforced /\ Referenced(categories(url), ents, unann, ner)
       THEN fail(500, "IntegrityError")
       ELSE /\ project' = project \ ProjectByUrl(url)
            /\ category' = cats
            /\ unannotated' = unann
            /\ entry' = ents
            /\ annotator' = annotator \ goneAnn
            /\ textHighlight' = Unlink(textHighlight, gone)
            /\ nerTextHighlight' = ner
            /\ resp' = Reply("delete_project", 200, "Project deleted")
            /\ UNCHANGED <<account, nextId, imp, inv>>

\* delete_classification_category (the administrator check is commented out
\* in the handler).
delete_classification_category(user, url, cid, fk_enforced) ==
    LET fail(status, detail) ==
            /\ resp' = Reply("delete_classification_category", status, detail)
            /\ UNCHANGED <<db, imp, inv>>
        found == {c \in categories(url) : c.id = cid}
    IN IF ProjectByUrl(url) = {} THEN fail(404, "Project does not exist")
       ELSE IF TheOne(ProjectByUrl(url)).kind # "TC"
       THEN fail(404, "Project does not have a category type")
       ELSE IF found = {}
       THEN fail(400, "Category is not found in the project")
       ELSE IF fk_enforced /\ Referenced(found, entry, unannotated, nerTextHighlight)
       THEN fail(500, "IntegrityError")
       ELSE /\ category' = category \ found
            /\ resp' = Reply("delete_classification_category", 200, "deleted")
            /\ UNCHANGED <<account, project, unannotated, entry, annotator,
                           textHighlight, nerTextHighlight, nextId, imp, inv>>

CategoryIds == 1..Cardinality(SeedCategories)

\* ---------------------------------------------------------- create_project
\* The kind a project_type string is dispatched to ("" when unsupported).
ProjectKindOf(project_type) ==
    IF project_type \in {"Text Classification", "textclassification",
                         "text-classification", "TextClassification", "tc", "TC"}
    THEN "TC"
    ELSE IF project_type \in {"Machine Translation Adequacy",
                              "machinetranslationadequacy",
                              "machine-translation-adequacy",
                              "MachineTranslationAdequacy", "mta", "MTA"}
    THEN "MTA"
    ELSE IF project_type \in {"Machine Translation Fluency",
                              "machinetranslationfluency",
                              "machine-translation-fluency",
                              "MachineTranslationFluency", "mtf", "MTF"}
    THEN "MTF"
    ELSE ""

create_project(user, project_type) ==
    IF ProjectKindOf(project_type) = ""
    THEN /\ resp' = Reply("create_project", 404, "Project type is not supported")
         /\ UNCHANGED <<db, imp, inv>>
    ELSE /\ project' = project \cup
                {[id |-> nextId["project"], kind |-> ProjectKindOf(project_type),
                  name |-> "name", administrators |-> {user}]}
         /\ nextId' = [nextId EXCEPT !["project"] = @ + 1]
         /\ resp' = Reply("create_project", 200, "created")
         /\ UNCHANGED <<account, category, unannotated, entry, annotator,
                        textHighlight, nerTextHighlight, imp, inv>>

\* add_administrator: the new administrator is fetched by email alone;
\* get() raises MultipleObjectsReturned, which the handler does not catch,
\* when several accounts share the address.
add_administrator(user, url, email) ==
    LET fail(status, detail) ==
            /\ resp' = Reply("add_administrator", status, detail)
            /\ UNCHANGED <<db, imp, inv>>
        found == {c \in account : c.email = email}
    IN IF ProjectByUrl(url) = {} THEN fail(404, "Project does not exist")
       ELSE IF ~contributor_is_admin(TheOne(ProjectByUrl(url)), user)
       THEN fail(401, "Contributor is not project adminstrator")
       ELSE IF found = {} THEN fail(404, "Contributor does not exist")
       ELSE IF Cardinality(found) > 1 THEN fail(500, "MultipleObjectsReturned")
       ELSE /\ project' = {IF p.id = url
                           THEN [p EXCEPT !.administrators =
                                              @ \cup {TheOne(found).username}]
                           ELSE p : p \in project}
            /\ resp' = Reply("add_administrator", 200, "Administrator added")
            /\ UNCHANGED <<account, category, unannotated, entry, annotator,
                           textHighlight, nerTextHighlight, nextId, imp, inv>>

\* update_project: of the patched columns the model keeps the name.
update_project(user, url, update_data) ==
    LET fail(status, detail) ==
            /\ resp' = Reply("update_project", status, detail)
            /\ UNCHANGED <<db, imp, inv>>
    IN IF ProjectByUrl(url) = {} THEN fail(404, "Project does not exist")
       ELSE IF ~contributor_is_admin(TheOne(ProjectByUrl(url)), user)
       THEN fail(401, "Contributor is not project adminstrator")
       ELSE /\ project' = {IF p.id = url /\ ~IsNone(update_data.name)
                           THEN [p EXCEPT !.name = Val(update_data.name)]
                           ELSE p : p \in project}
            /\ resp' = Reply("update_project", 200, "updated")
            /\ UNCHANGED <<account, category, unannotated, entry, annotator,
                           textHighlight, nerTextHighlight, nextId, imp, inv>>

\* toggle_annotator_status: the annotator is fetched by project and token,
\* the account of its contributor gets the requested is_active and is saved;
\* the response then reads the annotator's completion.
toggle_annotator_status(user, url, annotator_token, annotator_status) ==
    LET fail(status, detail) ==
            /\ resp' = Reply("toggle_annotator_status", status, detail)
            /\ UNCHANGED <<db, imp, inv>>
        found == {a \in AnnotatorByToken(annotator_token) : a.project = url}
    IN IF ProjectByUrl(url) = {} THEN fail(404, "Project does not exist")
       ELSE IF ~contributor_is_admin(TheOne(ProjectByUrl(url)), user)
       THEN fail(401, "Contributor is not project adminstrator")
       ELSE IF found = {} THEN fail(404, "Annotator not found in project")
       ELSE IF Cardinality(found) > 1 THEN fail(500, "MultipleObjectsReturned")
       ELSE LET c == completion(TheOne(found))
            IN /\ account' = {IF a.username = TheOne(found).contributor
                              THEN [a EXCEPT !.is_active = annotator_status]
                              ELSE a : a \in account}
               /\ resp' = Reply("toggle_annotator_status",
                                IF c.raised THEN 500 ELSE 200,
                                IF c.raised THEN "TypeError" ELSE "toggled")
               /\ UNCHANGED <<project, category, unannotated, entry, annotator,
                              textHighlight, nerTextHighlight, nextId, imp, inv>>

\* -------------------------------------------------------------- categories
\* create_classification_category.  Category.objects.create raises
\* IntegrityError on a name or a key binding the project already has
\* (unique_together), which the handler turns into a 400.
create_classification_category(url, category_data) ==
    LET fail(status, detail) ==
            /\ resp' = Reply("create_classification_category", status, detail)
            /\ UNCHANGED <<db, imp, inv>>
    IN IF ProjectByUrl(url) = {} THEN fail(404, "Project does not exist")
       ELSE IF TheOne(ProjectByUrl(url)).kind # "TC"
       THEN fail(404, "Project does not have a category type")
       ELSE IF \E c \in categories(url) :
                  \/ c.name = category_data.name
                  \/ c.key_binding = Some(category_data.key_binding)
       THEN fail(400, "Error: IntegrityError")
       ELSE /\ category' = category \cup
                    {[id |-> nextId["category"], project |-> url,
                      name |-> category_data.name,
                      key_binding |-> Some(category_data.key_binding)]}
            /\ nextId' = [nextId EXCEPT !["category"] = @ + 1]
            /\ resp' = Reply("create_classification_category", 200, "created")
            /\ UNCHANGED <<account, project, unannotated, entry, annotator,
                           textHighlight, nerTextHighlight, imp, inv>>

\* -------------------------------------------------------------- statistics
\* The columns of ProjectEntry that the model keeps.  Project.entries is
\* ProjectEntry.objects.filter(project=self), a queryset of the base model:
\* a lookup on it resolves these names only, not the columns of a subtype
\* (classification, adequacy, fluency), for which filter() and values()
\* raise FieldError when they are called.
ProjectEntryFields == {"id", "project", "unannotated_source", "annotator"}

\* self.entries.filter(<field>=value)
FilterEntries(rows, field, value) ==
    IF field \notin ProjectEntryFields
    THEN [raised |-> "FieldError", rows |-> {}]
    ELSE [raised |-> "", rows |-> {e \in rows : e[field] = value}]

\* TextClassificationProject.get_statistics and
\* NamedEntityRecognitionProject.get_statistics (the same body): one item per
\* category, in id order, counting self.entries.filter(classification=category).
CategoryStatistics(pid) ==
    LET cats == ById(categories(pid))
        counted == [i \in 1..Len(cats) |->
                      FilterEntries(entries(pid), "classification", cats[i].id)]
    IN IF \E i \in 1..Len(cats) : counted[i].raised # ""
       THEN [raised |-> "FieldError", categories |-> <<>>]
       ELSE [raised |-> "",
             categories |-> [i \in 1..Len(cats) |->
                               [name |-> cats[i].name,
                                total_entries |-> Cardinality(counted[i].rows)]]]

\* MachineTranslationProject.get_statistics:
\* self.entries.values(self.machine_translation_variation) names a column of
\* the subtype.
AverageStatistics(pid, kind) ==
    IF machine_translation_variation(kind) \notin ProjectEntryFields
    THEN [raised |-> "FieldError", categories |-> <<>>]
    ELSE [raised |-> "", categories |-> <<>>]

\* Project.get_statistics, dispatched on the project's concrete subtype.
get_statistics(p) ==
    IF p.kind \in {"TC", "NER"} THEN CategoryStatistics(p.id)
    ELSE AverageStatistics(p.id, p.kind)

\* get_project_statistics
get_project_statistics(url) ==
    /\ UNCHANGED <<db, imp, inv>>
    /\ IF ProjectByUrl(url) = {}
       THEN resp' = Reply("get_project_statistics", 404, "Project does not exist")
       ELSE LET s == get_statistics(TheOne(ProjectByUrl(url)))
            IN IF s.raised # ""
               THEN resp' = Reply("get_project_statistics", 500, s.raised)
               ELSE resp' = [Reply("get_project_statistics", 200, "statistics")
                             EXCEPT !.result = Some(
                                [total_entries |-> Cardinality(entries(url)),
                                 total_imported_texts |->
                                    Cardinality(imported_texts(url)),
                                 categories |-> s.categories])]

\* ------------------------------------------------------------ entry values
\* PrivateAnnotator.objects.get(project=project, contributor__username=name)
AnnotatorByUsername(pid, username) ==
    {a \in private_annotators(pid) : a.contributor = username}

\* The names of the category rows with id cid; {} when the row is gone.
CategoryName(cid) == {c.name : c \in {x \in category : x.id = cid}}

\* entry.ner_text_highlights.all(), in id order.
ner_text_highlights(e) == ById({h \in nerTextHighlight : h.entry = e.id})

\* The one key of <Subtype>ProjectEntry.values, by the project's kind.
ValueKey(kind) ==
    CASE kind = "TC" -> "category"
      [] kind = "NER" -> "ner_text_highlights"
      [] OTHER -> machine_translation_variation(kind)

\* <Subtype>ProjectEntry.values of an entry of a project of `kind`: the value
\* under its one key, or the exception raised by reading the name of a
\* category whose row is gone.
values(e, kind) ==
    CASE kind = "TC" ->
            IF CategoryName(Val(e.classification)) = {}
            THEN [raised |-> TRUE, value |-> <<>>]
            ELSE [raised |-> FALSE,
                  value |-> TheOne(CategoryName(Val(e.classification)))]
      [] kind = "NER" ->
            LET hs == ner_text_highlights(e)
            IN IF \E i \in 1..Len(hs) : CategoryName(hs[i].category) = {}
               THEN [raised |-> TRUE, value |-> <<>>]
               ELSE [raised |-> FALSE,
                     value |-> [i \in 1..Len(hs) |->
                                  <<hs[i].span_start, hs[i].span_end,
                                    TheOne(CategoryName(hs[i].category))>>]]
      [] OTHER -> [raised |-> FALSE, value |-> Val(e.score)]

\* ------------------------------------------------------------ disagreements
\* common_ids of export_annotator_disagreements: the source id of every entry
\* of [*annotator1_entries, *annotator2_entries] whose source both annotators
\* have judged, in the order of that list.
common_ids(entries1, entries2) ==
    LET both == entries1 \o entries2
        ids1 == {entries1[i].unannotated_source : i \in 1..Len(entries1)}
        ids2 == {entries2[i].unannotated_source : i \in 1..Len(entries2)}
        shared == SelectSeq(both, LAMBDA e : /\ e.unannotated_source \in ids1
                                             /\ e.unannotated_source \in ids2)
    IN [i \in 1..Len(shared) |-> shared[i].unannotated_source]

\* The loop over common_ids: annotatorN_entries.get(unannotated_source__id=..)
\* raises MultipleObjectsReturned when the annotator judged the text more
\* than once; differing values append a record.
RECURSIVE Disagreements(_, _, _, _, _)
Disagreements(ids, rows1, rows2, kind, acc) ==
    IF ids = <<>> \/ acc.raised # "" THEN acc
    ELSE LET of1 == {e \in rows1 : e.unannotated_source = Head(ids)}
             of2 == {e \in rows2 : e.unannotated_source = Head(ids)}
             v1 == values(TheOne(of1), kind)
             v2 == values(TheOne(of2), kind)
             text == TheOne({u \in unannotated : u.id = Head(ids)}).text
         IN IF Cardinality(of1) > 1 \/ Cardinality(of2) > 1
            THEN [acc EXCEPT !.raised = "MultipleObjectsReturned"]
            ELSE IF v1.raised \/ v2.raised
            THEN [acc EXCEPT !.raised = "Category.DoesNotExist"]
            ELSE Disagreements(Tail(ids), rows1, rows2, kind,
                    IF v1.value # v2.value
                    THEN [acc EXCEPT !.report =
                            Append(@, [first |-> v1.value, second |-> v2.value,
                                       text |-> text])]
                    ELSE acc)

\* What export_annotator_disagreements answers for two annotator rows of
\* project p: the exception it raised ("" for none) and the records written.
disagreements(p, a1, a2) ==
    LET rows1 == get_annotators_annotations(p.id, a1.id)
        rows2 == get_annotators_annotations(p.id, a2.id)
    IN Disagreements(common_ids(ById(rows1), ById(rows2)), rows1, rows2, p.kind,
                     [raised |-> "", report |-> <<>>])

\* export_annotator_disagreements
export_annotator_disagreements(url, annotator1, annotator2) ==
    /\ UNCHANGED <<db, imp, inv>>
    /\ LET op == "export_annotator_disagreements" IN
       IF ProjectByUrl(url) = {}
       THEN resp' = Reply(op, 404, "Project does not exist")
       ELSE IF AnnotatorByUsername(url, annotator1) = {}
       THEN resp' = Reply(op, 404, "Private Annotator 1 does not exist")
       ELSE IF AnnotatorByUsername(url, annotator2) = {}
       THEN resp' = Reply(op, 404, "Private Annotator 2 does not exist")
       ELSE LET r == disagreements(TheOne(ProjectByUrl(url)),
                                   TheOne(AnnotatorByUsername(url, annotator1)),
                                   TheOne(AnnotatorByUsername(url, annotator2)))
            IN IF r.raised # ""
               THEN resp' = Reply(op, 500, r.raised)
               ELSE resp' = [Reply(op, 200, "disagreements")
                             EXCEPT !.result = Some(r.report)]

\* ------------------------------------------------------------------ export
\* A dict is the sequence of its <<key, value>> items in insertion order.
DictHas(d, k) == \E i \in 1..Len(d) : d[i][1] = k
DictGet(d, k) == d[CHOOSE i \in 1..Len(d) : d[i][1] = k][2]
Keys(d) == [i \in 1..Len(d) |-> d[i][1]]

\* {**d1, **d2}: a key of d2 already in d1 keeps its place and takes d2's value.
Merge(d1, d2) ==
    [i \in 1..Len(d1) |->
        IF DictHas(d2, d1[i][1]) THEN <<d1[i][1], DictGet(d2, d1[i][1])>>
        ELSE d1[i]]
    \o SelectSeq(d2, LAMBDA kv : ~DictHas(d1, kv[1]))

\* <Subtype>Project.value_fields
value_fields(kind) ==
    CASE kind = "TC" -> <<"classification">>
      [] kind = "NER" -> <<"ner_text_highlights">>
      [] OTHER -> <<machine_translation_variation(kind)>>

\* <Subtype>UnannotatedEntry.parameters
parameters(u, kind) ==
    CASE kind = "MTA" -> <<<<"reference_translation", u.text>>,
                           <<"mt_system_translation", Val(u.mt_system_translation)>>>>
      [] kind = "MTF" -> <<<<"mt_system_translation", u.text>>>>
      [] OTHER -> <<<<"text", u.text>>>>

\* <Subtype>UnannotatedEntry.pre_annotations.  No handler writes
\* pre_annotation_adequacy or pre_annotation_fluency, so the MT kinds always
\* answer 'No annotation'.
pre_annotations(u, kind) ==
    CASE kind = "TC" ->
            IF IsNone(u.pre_annotation) THEN <<<<"category", "No preannotation">>>>
            ELSE <<<<"category", TheOne(CategoryName(Val(u.pre_annotation)))>>>>
      [] kind = "NER" -> <<>>
      [] OTHER -> <<<<machine_translation_variation(kind), "No annotation">>>>

\* entry.values as a dict.
ValuesDict(e, kind) == <<<<ValueKey(kind), values(e, kind).value>>>>

\* The keys of the pre-annotations left as they are (faulty variant).
Unprefixed(d) == d

\* {f'preannotation_{k}': v for k, v in pre_annotations.items()}
Prefixed(d) == [i \in 1..Len(d) |-> <<"preannotation_" \o d[i][1], d[i][2]>>]

\* entry.unannotated_source
unannotated_source(e) == TheOne({u \in unannotated : u.id = e.unannotated_source})

\* Reading entry.values or the source's pre_annotations raises (a category
\* row that is gone).
ExportRaises(e, kind) ==
    \/ values(e, kind).raised
    \/ PreAnnotationsRaises(unannotated_source(e))

\* One object of the JSON export (created_at and updated_at left out: the
\* model keeps no clock).
JsonObject(e, kind) ==
    Merge(Merge(Merge(<<<<"id", e.id>>,
                        <<"imported_text_source_id", unannotated_source(e).id>>>>,
                      parameters(unannotated_source(e), kind)),
                ValuesDict(e, kind)),
          Prefixed(pre_annotations(unannotated_source(e), kind)))

\* The json branch of export_project: the export_data list, in id order.
ExportJson(p) ==
    LET rows == ById(entries(p.id))
    IN IF \E i \in 1..Len(rows) : ExportRaises(rows[i], p.kind)
       THEN [status |-> 500, detail |-> "Category.DoesNotExist", body |-> <<>>]
       ELSE [status |-> 200, detail |-> "json",
             body |-> [i \in 1..Len(rows) |-> JsonObject(rows[i], p.kind)]]

\* The header row written with the first entry, and the one written when
\* the project has no entry (both without created_at and updated_at).
CsvHeader(u, kind) ==
    <<"id", "imported_text_source_id">> \o Keys(parameters(u, kind))
    \o value_fields(kind)
    \o [i \in 1..Len(value_fields(kind)) |->
            "preannotation_" \o value_fields(kind)[i]]

EmptyCsvHeader(kind) ==
    <<"id", "imported_text_source_id", "text">> \o value_fields(kind)
    \o [i \in 1..Len(value_fields(kind)) |->
            "preannotation_" \o value_fields(kind)[i]]

\* values[value_field] or preannotations[value_field] raises KeyError for
\* some name of value_fields.
CsvRowRaises(e, kind) ==
    \E i \in 1..Len(value_fields(kind)) :
        \/ ~DictHas(ValuesDict(e, kind), value_fields(kind)[i])
        \/ ~DictHas(pre_annotations(unannotated_source(e), kind),
                    value_fields(kind)[i])

\* One data row of the CSV export.
CsvDataRow(e, kind) ==
    LET fields == value_fields(kind)
        params == parameters(unannotated_source(e), kind)
    IN <<e.id, unannotated_source(e).id>>
       \o [i \in 1..Len(params) |-> params[i][2]]
       \o [i \in 1..Len(fields) |-> DictGet(ValuesDict(e, kind), fields[i])]
       \o [i \in 1..Len(fields) |->
              DictGet(pre_annotations(unannotated_source(e), kind), fields[i])]

\* The csv branch of export_project: the rows written, header first.  Per
\* entry the loop reads pre_annotations and values, then indexes them.
ExportCsv(p) ==
    LET rows == ById(entries(p.id))
        Fails(i) == ExportRaises(rows[i], p.kind) \/ CsvRowRaises(rows[i], p.kind)
        first == CHOOSE i \in 1..Len(rows) :
                    Fails(i) /\ \A j \in 1..(i - 1) : ~Fails(j)
    IN IF rows = <<>>
       THEN [status |-> 200, detail |-> "csv", body |-> <<EmptyCsvHeader(p.kind)>>]
       ELSE IF \E i \in 1..Len(rows) : Fails(i)
       THEN [status |-> 500,
             detail |-> IF ExportRaises(rows[first], p.kind)
                        THEN "Category.DoesNotExist" ELSE "KeyError",
             body |-> <<>>]
       ELSE [status |-> 200, detail |-> "csv",
             body |-> <<CsvHeader(unannotated_source(rows[1]), p.kind)>>
                      \o [i \in 1..Len(rows) |-> CsvDataRow(rows[i], p.kind)]]

\* export_project
export_project(url, export_type) ==
    /\ UNCHANGED <<db, imp, inv>>
    /\ IF ProjectByUrl(url) = {}
       THEN resp' = Reply("export_project", 404, "Project does not exist")
       ELSE IF export_type \notin {"csv", "json"}
       THEN resp' = Reply("export_project", 400,
                          "Requested export type is not supported")
       ELSE LET r == IF export_type = "csv"
                     THEN ExportCsv(TheOne(ProjectByUrl(url)))
                     ELSE ExportJson(TheOne(ProjectByUrl(url)))
            IN resp' = [Reply("export_project", r.status, r.detail)
                        EXCEPT !.result = IF r.status = 200 THEN Some(r.body)
                                          ELSE None]

\* ----------------------------------------------------------- specifications
\* Imports only, of every upload, naming the text column alone or every
\* column, into the seeded projects and into a project that does not exist.
NextImport == ImportUnannotated

SpecImport == Init /\ [][NextImport]_vars

\* The life of projects, texts and entries.  The database starts with one
\* project of any kind, administered by "admin", and the categories of a
\* classification or NER project; a second project comes from create_project.
\* Every request is handled to its end before the next one starts.
InitEntries ==
    /\ account = {[username |-> "admin", email |-> "admin@ucl.ac.uk", is_active |-> TRUE],
                  [username |-> "anon", email |-> "anon@ucl.ac.uk", is_active |-> TRUE]}
    /\ \E kind \in Kinds :
          /\ project = {[id |-> 1, kind |-> kind, name |-> "name",
                         administrators |-> {"admin"}]}
          /\ category = IF kind \in {"TC", "NER"}
                        THEN {[id |-> 1, project |-> 1, name |-> "category1",
                               key_binding |-> None],
                              [id |-> 2, project |-> 1, name |-> "category2",
                               key_binding |-> None]}
                        ELSE {}
    /\ unannotated = {}
    /\ entry = {}
    /\ annotator = {}
    /\ textHighlight = {}
    /\ nerTextHighlight = {}
    /\ nextId = [t \in Tables |->
                    CASE t = "project" -> 2
                      [] t = "category" -> 3
                      [] OTHER -> 1]
    /\ resp = Reply("none", 0, "")
    /\ imp = Idle
    /\ inv = <<>>

EntryUrls == 1..(1 + MaxCreatedProjects)

EntryPayloads(kind) ==
    CASE kind = "TC" ->
            {Payload(c, None, None, None, None) : c \in {None, Some("category1")}}
      [] kind = "NER" ->
            {Payload(None, None, None, None, n) :
                n \in {None, Some(<<NERHighlight>>)}}
      [] OTHER ->
            {Payload(None, None, None, None, None),
             Payload(None, Some(5), Some(<<CompleteHighlight>>), None, None)}

KindAt(url) == IF ProjectByUrl(url) = {} THEN "TC" ELSE TheOne(ProjectByUrl(url)).kind

EntriesCreateProject ==
    \E project_type \in {"mta", "Named Entity Recognition"} :
        /\ nextId["project"] <= 1 + MaxCreatedProjects
        /\ create_project("admin", project_type)

EntriesImportText ==
    \E url \in EntryUrls : import_unannotated(url, TranslatedFields, OneText, TRUE)

EntriesCreateEntry ==
    \E url \in EntryUrls, src \in SourceIds :
        \E payload \in EntryPayloads(KindAt(url)) :
            /\ create_entry("anon", url,
                            [unannotated_source |-> src, payload |-> payload])
            /\ nextId'["entry"] <= MaxEntries + 1

EntriesInviteAnnotator ==
    invite_annotator("admin", 1, [username |-> "ann1", email |-> "ann1@ucl.ac.uk"])

EntriesCreatePrivateEntry ==
    \E token \in Tokens, src \in SourceIds :
        \E payload \in EntryPayloads(
                IF AnnotatorByToken(token) = {} THEN "TC"
                ELSE KindAt(TheOne(AnnotatorByToken(token)).project)) :
            /\ create_private_annotators_entry(
                    token, [unannotated_source |-> src, payload |-> payload])
            /\ nextId'["entry"] <= MaxEntries + 1

EntriesUpdateProjectEntry ==
    \E url \in EntryUrls, eid \in EntryIds :
        update_project_entry("admin", url, eid,
            [classification |-> Some("category2"), adequacy |-> Some(3),
             fluency |-> Some(0)])

EntriesModifyAnnotatorsEntry ==
    \E token \in Tokens, eid \in EntryIds :
        modify_annotators_entry(token, eid,
            [category_name |-> Some("category2"), adequacy |-> Some(3),
             fluency |-> Some(3)])

EntriesDeleteProjectEntry ==
    \E url \in EntryUrls, eid \in EntryIds :
        delete_project_entry("admin", url, eid)

EntriesDeleteUnannotated ==
    \E url \in EntryUrls, sid \in SourceIds :
        delete_unannotated_project_entry("admin", url, sid)

EntriesDeleteProject ==
    \E url \in EntryUrls, fk_enforced \in BOOLEAN :
        delete_project("admin", url, fk_enforced)

NextEntries ==
    \/ EntriesCreateProject
    \/ EntriesImportText
    \/ EntriesCreateEntry
    \/ EntriesCreatePrivateEntry
    \/ EntriesInviteAnnotator
    \/ EntriesUpdateProjectEntry
    \/ EntriesModifyAnnotatorsEntry
    \/ EntriesDeleteProjectEntry
    \/ EntriesDeleteUnannotated
    \/ EntriesDeleteProject

SpecEntries == InitEntries /\ [][NextEntries]_vars

\* The progress of private annotators through the classification project and
\* the adequacy project of the seeded database: invitations, imports of
\* single texts, judgements by the invited and by the public annotator, and the two
\* progress queries.
ProgressUrls == {1, 2}

ProgressPayloads(kind) ==
    IF kind = "TC" THEN Payload(Some("category1"), None, None, None, None)
    ELSE Payload(None, Some(4), None, None, None)

ProgressInviteAnnotator ==
    \E url \in ProgressUrls, username \in {"ann1", "ann2"} :
        invite_annotator("admin", url,
                         [username |-> username, email |-> "ann@ucl.ac.uk"])

ProgressImportText ==
    \E url \in ProgressUrls : import_unannotated(url, TranslatedFields, OneText, TRUE)

ProgressCreatePrivateEntry ==
    \E token \in Tokens, src \in SourceIds :
        /\ create_private_annotators_entry(
                token,
                [unannotated_source |-> src,
                 payload |-> ProgressPayloads(
                    IF AnnotatorByToken(token) = {} THEN "TC"
                    ELSE KindAt(TheOne(AnnotatorByToken(token)).project))])
        /\ nextId'["entry"] <= MaxEntries + 1

ProgressCreateEntry ==
    \E url \in ProgressUrls, src \in SourceIds :
        /\ create_entry("anon", url,
                        [unannotated_source |-> src,
                         payload |-> ProgressPayloads(KindAt(url))])
        /\ nextId'["entry"] <= MaxEntries + 1

NextProgress ==
    \/ ProgressInviteAnnotator
    \/ ProgressImportText
    \/ ProgressCreatePrivateEntry
    \/ ProgressCreateEntry
    \/ GetRemainingEntries
    \/ GetProjectPrivateAnnotator

SpecProgress == Init /\ [][NextProgress]_vars

\* An import running row by row while other requests are served.  No handler
\* opens a transaction, so every query and every objects.create() of
\* add_unannotated_entries is a statement of its own and the statements of
\* another request may fall between any two of them.
RaceRows ==
    {Row(TRUE, Some("foo"), None, Some("category1"), None),
     Row(TRUE, Some("bar"), None, Some("category2"), None)}

RaceFields == [PlainFields EXCEPT !.value_field = Some("cat")]

RECURSIVE RaceBatches(_)
RaceBatches(n) ==
    IF n = 0 THEN {<<>>}
    ELSE RaceBatches(n - 1) \cup
         {Append(b, r) : b \in {x \in RaceBatches(n - 1) : Len(x) = n - 1},
                         r \in RaceRows}

Answered(status, detail) ==
    /\ imp' = [imp EXCEPT !.pc = "done", !.status = status, !.detail = detail]
    /\ resp' = [Reply("import_unannotated", status, detail) EXCEPT
                    !.index = IF NamesIndex(detail) THEN Some(imp.i - 1) ELSE None,
                    !.count = IF status = 200 THEN Some(Len(imp.data)) ELSE None]

\* import_unannotated up to the call of project.add_unannotated_entries.
import_begin(url, fields, file) ==
    LET fail(status, detail) ==
            /\ resp' = Reply("import_unannotated", status, detail)
            /\ UNCHANGED <<db, imp, inv>>
    IN /\ imp.pc \in {"idle", "done"}
       /\ IF ProjectByUrl(url) = {} THEN fail(404, "Project does not exist")
          ELSE IF file.content_type # "application/json"
          THEN fail(400, "Uploaded data type is not supported")
          ELSE IF ~file.is_list
          THEN fail(400, "Uploaded data is not in a list of records format")
          ELSE /\ nextId["unannotated"] + Len(file.rows) <= MaxUnannotated + 1
               /\ imp' = [Idle EXCEPT !.pc = "validate",
                                      !.project = TheOne(ProjectByUrl(url)),
                                      !.data = file.rows, !.fields = fields,
                                      !.i = 1, !.first = nextId["unannotated"]]
               /\ UNCHANGED <<db, resp, inv>>

ImportBegin ==
    \E url \in {1, 5}, rows \in RaceBatches(MaxBatch) :
        import_begin(url, RaceFields,
                     [content_type |-> "application/json", is_list |-> TRUE,
                      rows |-> rows])

\* One turn of the first loop of add_unannotated_entries: the checks of row
\* imp.i against the tables as they are now, or the end of the loop.
ImportValidateRow ==
    /\ imp.pc = "validate"
    /\ UNCHANGED <<db, inv>>
    /\ IF imp.i > Len(imp.data)
       THEN imp' = [imp EXCEPT !.pc = "persist", !.i = 1] /\ UNCHANGED resp
       ELSE LET err == RowError(imp.project, imp.data[imp.i], imp.fields)
            IN IF err # "" THEN Answered(ErrorStatus(err), err)
               ELSE imp' = [imp EXCEPT !.i = @ + 1] /\ UNCHANGED resp

\* One turn of the second loop: the row's category is fetched again and the
\* row is written, or the loop ends and the handler answers.
ImportPersistRow ==
    /\ imp.pc = "persist"
    /\ IF imp.i > Len(imp.data)
       THEN /\ Answered(200, "Succesfully created unannotated entries")
            /\ UNCHANGED <<db, inv>>
       ELSE IF PersistRaises(imp.project, imp.data[imp.i], imp.fields)
       THEN /\ Answered(500, "Category.DoesNotExist")
            /\ UNCHANGED <<db, inv>>
       ELSE /\ unannotated' = unannotated \cup
                    {NewUnannotated(imp.project, imp.data[imp.i], imp.fields,
                                    nextId["unannotated"])}
            /\ nextId' = [nextId EXCEPT !["unannotated"] = @ + 1]
            /\ imp' = [imp EXCEPT !.i = @ + 1]
            /\ UNCHANGED <<account, project, category, entry, annotator,
                           textHighlight, nerTextHighlight, resp, inv>>

RaceDeleteCategory ==
    \E cid \in CategoryIds, fk_enforced \in BOOLEAN :
        delete_classification_category("anon", 1, cid, fk_enforced)

NextRace ==
    \/ ImportBegin
    \/ ImportValidateRow
    \/ ImportPersistRow
    \/ RaceDeleteCategory

SpecRace == Init /\ [][NextRace]_vars

\* Two private annotators judging the texts of one project, of any kind, and
\* the disagreement report asked for any pair of them.  An annotator may
\* judge a text again: add_entry has no check against it.
MaxJudgements == 3        \* entries ever written while annotators are compared

JudgePayloads(kind) ==
    CASE kind = "TC" ->
            {Payload(Some(c), None, None, None, None) :
                c \in {"category1", "category2"}}
      [] kind = "NER" ->
            {Payload(None, None, None, None, Some(n)) :
                n \in {<<>>, <<NERHighlight>>}}
      [] OTHER ->
            {Payload(None, Some(n), None, None, None) : n \in {4, 5}}

Usernames == {"ann1", "ann2"}

JudgeInviteAnnotator ==
    \E username \in Usernames :
        invite_annotator("admin", 1,
                         [username |-> username, email |-> "ann@ucl.ac.uk"])

JudgeImportText == import_unannotated(1, TranslatedFields, OneText, TRUE)

JudgeCreatePrivateEntry ==
    \E token \in Tokens, src \in SourceIds :
        \E payload \in JudgePayloads(KindAt(1)) :
            /\ create_private_annotators_entry(
                    token, [unannotated_source |-> src, payload |-> payload])
            /\ nextId'["entry"] <= MaxJudgements + 1

ExportAnnotatorDisagreements ==
    \E annotator1 \in Usernames, annotator2 \in Usernames :
        export_annotator_disagreements(1, annotator1, annotator2)

NextJudge ==
    \/ JudgeInviteAnnotator
    \/ JudgeImportText
    \/ JudgeCreatePrivateEntry
    \/ ExportAnnotatorDisagreements

SpecJudge == InitEntries /\ [][NextJudge]_vars

\* The statistics of one project, of any kind, while categories are
\* created, texts imported, and entries added and deleted.
MaxCreatedCategories == 1  \* categories created through the API

StatisticsCreateCategory ==
    \E name \in {"category1", "category3"}, key_binding \in {"a"} :
        /\ nextId["category"] <= 2 + MaxCreatedCategories
        /\ create_classification_category(
                1, [name |-> name, key_binding |-> key_binding])

StatisticsImportText == import_unannotated(1, TranslatedFields, OneText, TRUE)

StatisticsCreateEntry ==
    \E src \in SourceIds :
        \E payload \in Payloads(KindAt(1)) :
            /\ create_entry("anon", 1,
                            [unannotated_source |-> src, payload |-> payload])
            /\ nextId'["entry"] <= MaxEntries + 1

StatisticsDeleteEntry ==
    \E eid \in EntryIds : delete_project_entry("admin", 1, eid)

GetProjectStatistics == \E url \in EntryUrls : get_project_statistics(url)

NextStatistics ==
    \/ StatisticsCreateCategory
    \/ StatisticsImportText
    \/ StatisticsCreateEntry
    \/ StatisticsDeleteEntry
    \/ GetProjectStatistics

SpecStatistics == InitEntries /\ [][NextStatistics]_vars

\* The exports of projects while texts are imported, with and without
\* pre-annotations, and entries are added and deleted.  The database starts
\* with one project of any kind; a second one comes from create_project.
OneFullText ==
    [content_type |-> "application/json", is_list |-> TRUE, rows |-> <<CsvRow>>]

ExportTypes == {"csv", "json", "xml"}

ExportCreateProject ==
    /\ nextId["project"] <= 1 + MaxCreatedProjects
    /\ create_project("admin", "mta")

ExportImportText ==
    \E url \in EntryUrls, fields \in {TranslatedFields, AllFields} :
        /\ import_unannotated(url, fields, OneFullText, TRUE)
        /\ nextId'["unannotated"] <= MaxUnannotated + 1

ExportCreateEntry ==
    \E url \in EntryUrls, src \in SourceIds :
        \E payload \in JudgePayloads(KindAt(url)) :
            /\ create_entry("anon", url,
                            [unannotated_source |-> src, payload |-> payload])
            /\ nextId'["entry"] <= MaxEntries + 1

ExportDeleteEntry ==
    \E url \in EntryUrls, eid \in EntryIds : delete_project_entry("admin", url, eid)

ExportProject ==
    \E url \in EntryUrls, export_type \in ExportTypes :
        export_project(url, export_type)

NextExport ==
    \/ ExportCreateProject
    \/ ExportImportText
    \/ ExportCreateEntry
    \/ ExportDeleteEntry
    \/ ExportProject

SpecExport == InitEntries /\ [][NextExport]_vars

\* The administration of projects by an administrator ("admin") and by a
\* contributor who administers nothing at the start ("anon"): projects are
\* created, renamed, given administrators and deleted.
\* request.user is the account the request was authenticated as.
Callers == {"admin", "anon"}

MaxAdminRows == 1         \* texts and entries ever written under the admin gate

ProjectTypes == {"mtf", "Mtf", "NER", "xml"}

AdminCreateProject ==
    \E user \in Callers, project_type \in ProjectTypes :
        /\ nextId["project"] <= 1 + MaxCreatedProjects
        /\ create_project(user, project_type)

AdminAddAdministrator ==
    \E user \in Callers, url \in EntryUrls :
        \E email \in {"anon@ucl.ac.uk", "nobody@ucl.ac.uk"} :
            add_administrator(user, url, email)

AdminUpdateProject ==
    \E user \in Callers, url \in EntryUrls :
        \E name \in {None, Some("renamed")} :
            update_project(user, url, [name |-> name])

AdminDeleteProject ==
    \E user \in Callers, url \in EntryUrls, fk_enforced \in BOOLEAN :
        delete_project(user, url, fk_enforced)

NextAdmin ==
    \/ AdminCreateProject
    \/ AdminAddAdministrator
    \/ AdminUpdateProject
    \/ AdminDeleteProject

SpecAdmin == InitEntries /\ [][NextAdmin]_vars

\* The requests that only an administrator of the project may make, sent by
\* its administrator and by a contributor who is not one (until
\* add_administrator makes them one), while a text is imported and judged
\* and an annotator is invited.
GateImportText ==
    /\ import_unannotated(1, TranslatedFields, OneText, TRUE)
    /\ nextId'["unannotated"] <= MaxAdminRows + 1

GateCreateEntry ==
    \E payload \in JudgePayloads(KindAt(1)) :
        /\ create_entry("anon", 1, [unannotated_source |-> 1, payload |-> payload])
        /\ nextId'["entry"] <= MaxAdminRows + 1

GateAddAdministrator ==
    \E user \in Callers : add_administrator(user, 1, "anon@ucl.ac.uk")

GateUpdateProject ==
    \E user \in Callers : update_project(user, 1, [name |-> Some("renamed")])

GateDeleteProject ==
    \E user \in Callers, fk_enforced \in BOOLEAN :
        delete_project(user, 1, fk_enforced)

GateUpdateProjectEntry ==
    \E user \in Callers :
        update_project_entry(user, 1, 1,
            [classification |-> Some("category2"), adequacy |-> Some(3),
             fluency |-> Some(3)])

GateDeleteProjectEntry ==
    \E user \in Callers : delete_project_entry(user, 1, 1)

GateDeleteUnannotated ==
    \E user \in Callers : delete_unannotated_project_entry(user, 1, 1)

GateInviteAnnotator ==
    \E user \in Callers :
        invite_annotator(user, 1, [username |-> "ann1", email |-> "ann1@ucl.ac.uk"])

GateToggleAnnotatorStatus ==
    \E user \in Callers, token \in Tokens, annotator_status \in BOOLEAN :
        toggle_annotator_status(user, 1, token, annotator_status)

NextGate ==
    \/ GateImportText
    \/ GateCreateEntry
    \/ GateAddAdministrator
    \/ GateUpdateProject
    \/ GateDeleteProject
    \/ GateUpdateProjectEntry
    \/ GateDeleteProjectEntry
    \/ GateDeleteUnannotated
    \/ GateInviteAnnotator
    \/ GateToggleAnnotatorStatus

SpecGate == InitEntries /\ [][NextGate]_vars

\* The requests of private annotators, each carrying its annotator's token:
\* two annotators are invited to the project, switched off and on by its
\* administrator, and judge the one imported text, then patch and delete
\* entries and highlights, their own and each other's.
MaxTokenEntries == 2      \* entries ever written by the private annotators

TokenPayloads(kind) ==
    CASE kind = "TC" -> {Payload(Some("category1"), None, None, None, None)}
      [] kind = "NER" -> {Payload(None, None, None, None, Some(<<NERHighlight>>))}
      [] OTHER -> {Payload(None, Some(4), Some(<<CompleteHighlight>>), None, None)}

EntryPatches ==
    {[category_name |-> Some("category2"), adequacy |-> Some(3), fluency |-> Some(3)]}

HighlightIds == 1..MaxTokenEntries

TokensInviteAnnotator ==
    \E username \in Usernames :
        invite_annotator("admin", 1,
            [username |-> username, email |-> username \o "@ucl.ac.uk"])

TokensImportText ==
    /\ import_unannotated(1, TranslatedFields, OneText, TRUE)
    /\ nextId'["unannotated"] <= MaxAdminRows + 1

TokensToggleAnnotatorStatus ==
    \E token \in Tokens, annotator_status \in BOOLEAN :
        toggle_annotator_status("admin", 1, token, annotator_status)

TokensCreateEntry ==
    \E token \in Tokens, payload \in TokenPayloads(KindAt(1)) :
        /\ TokenRequest(token,
              create_private_annotators_entry(
                  token, [unannotated_source |-> 1, payload |-> payload]))
        /\ nextId'["entry"] <= MaxTokenEntries + 1

TokensGetRemainingEntries ==
    \E token \in Tokens : TokenRequest(token, get_remaining_entries(token))

TokensModifyEntry ==
    \E token \in Tokens, eid \in 1..MaxTokenEntries, patch_data \in EntryPatches :
        TokenRequest(token, modify_annotators_entry(token, eid, patch_data))

TokensModifyHighlight ==
    \E token \in Tokens, highlight_id \in HighlightIds :
        TokenRequest(token,
            modify_annotators_highlight(
                token, [highlight_id |-> highlight_id, classification |-> "Addition"]))

TokensDeleteHighlight ==
    \E token \in Tokens, highlight_id \in HighlightIds :
        TokenRequest(token, delete_annotators_highlight(token, highlight_id))

NextTokens ==
    \/ TokensInviteAnnotator
    \/ TokensImportText
    \/ TokensToggleAnnotatorStatus
    \/ TokensCreateEntry
    \/ TokensGetRemainingEntries
    \/ TokensModifyEntry
    \/ TokensModifyHighlight
    \/ TokensDeleteHighlight

SpecTokens == InitEntries /\ [][NextTokens]_vars

\* The updates of entries: the one imported text of the project is judged by
\* the public and by an invited private annotator, and the entries are
\* patched by the administrator and by the private annotator, with and
\* without the field of the project's kind, with the score 0, and with a
\* category name the project does not have.
MaxUpdatedEntries == 2    \* entries ever written while entries are updated

UpdateData ==
    {[classification |-> c, adequacy |-> v, fluency |-> v] :
        c \in {None, Some("nope"), Some("category2")}, v \in {None, Some(0), Some(3)}}

PatchData ==
    {[category_name |-> c, adequacy |-> v, fluency |-> v] :
        c \in {None, Some("nope"), Some("category2")}, v \in {None, Some(0), Some(3)}}

UpdatesImportText ==
    /\ import_unannotated(1, TranslatedFields, OneText, TRUE)
    /\ nextId'["unannotated"] <= MaxAdminRows + 1

UpdatesInviteAnnotator ==
    invite_annotator("admin", 1, [username |-> "ann1", email |-> "ann1@ucl.ac.uk"])

UpdatesCreateEntry ==
    \E payload \in JudgePayloads(KindAt(1)) :
        /\ create_entry("anon", 1, [unannotated_source |-> 1, payload |-> payload])
        /\ nextId'["entry"] <= MaxUpdatedEntries + 1

UpdatesCreatePrivateEntry ==
    \E token \in Tokens, payload \in JudgePayloads(KindAt(1)) :
        /\ create_private_annotators_entry(
                token, [unannotated_source |-> 1, payload |-> payload])
        /\ nextId'["entry"] <= MaxUpdatedEntries + 1

UpdatesUpdateProjectEntry ==
    \E eid \in 1..MaxUpdatedEntries, update_data \in UpdateData :
        update_project_entry("admin", 1, eid, update_data)

UpdatesModifyAnnotatorsEntry ==
    \E token \in Tokens, eid \in 1..MaxUpdatedEntries, patch_data \in PatchData :
        modify_annotators_entry(token, eid, patch_data)

NextUpdates ==
    \/ UpdatesImportText
    \/ UpdatesInviteAnnotator
    \/ UpdatesCreateEntry
    \/ UpdatesCreatePrivateEntry
    \/ UpdatesUpdateProjectEntry
    \/ UpdatesModifyAnnotatorsEntry

SpecUpdates == InitEntries /\ [][NextUpdates]_vars

\* The categories of a project in use: the one text of the project is
\* imported with or without a pre-annotation and judged by the public
\* annotator, entries are deleted, and categories are deleted by the
\* administrator and by a contributor who is not one, on a database that
\* enforces foreign keys and on one that does not.
CategoriesImportText ==
    \E fields \in {TranslatedFields, AllFields} :
        /\ import_unannotated(1, fields, OneFullText, TRUE)
        /\ nextId'["unannotated"] <= MaxAdminRows + 1

CategoriesCreateEntry ==
    \E payload \in JudgePayloads(KindAt(1)) :
        /\ create_entry("anon", 1, [unannotated_source |-> 1, payload |-> payload])
        /\ nextId'["entry"] <= MaxAdminRows + 1

CategoriesDeleteEntry == delete_project_entry("admin", 1, 1)

CategoriesDeleteCategory ==
    \E user \in Callers, cid \in CategoryIds, fk_enforced \in BOOLEAN :
        delete_classification_category(user, 1, cid, fk_enforced)

CategoriesDeleteProject ==
    \E fk_enforced \in BOOLEAN : delete_project("admin", 1, fk_enforced)

NextCategories ==
    \/ CategoriesImportText
    \/ CategoriesCreateEntry
    \/ CategoriesDeleteEntry
    \/ CategoriesDeleteCategory
    \/ CategoriesDeleteProject

SpecCategories == InitEntries /\ [][NextCategories]_vars

\* Invitations handled concurrently: the administrator invites a new
\* contributor and one who has an account already, to the project of the
\* seeded database and to a second one, while texts are imported; each
\* request runs its test and its write as separate steps.
InviteData ==
    {[username |-> "ann1", email |-> "ann1@ucl.ac.uk"],
     [username |-> "anon", email |-> "anon@ucl.ac.uk"]}

InviteCreateProject ==
    /\ nextId["project"] <= 1 + MaxCreatedProjects
    /\ create_project("admin", "mta")

InviteImportText ==
    /\ import_unannotated(1, TranslatedFields, OneText, TRUE)
    /\ nextId'["unannotated"] <= MaxAdminRows + 1

InviteCheck ==
    \E url \in EntryUrls, data \in InviteData : invite_check("admin", url, data)

InviteCreate == \E i \in 1..Len(inv) : invite_create(i)

NextInvite ==
    \/ InviteCreateProject
    \/ InviteImportText
    \/ InviteCheck
    \/ InviteCreate

SpecInvite == InitEntries /\ [][NextInvite]_vars

\* ------------------------------------------------------------------ claims
\* What add_entry is asked to create: an entry from source id sid with a
\* payload of the project's kind.
EntryData(sid, payload) == [unannotated_source |-> sid, payload |-> payload]

\* sid identifies no imported text of project p.
NotASourceOf(p, sid) == ~\E u \in unannotated : u.id = sid /\ u.project = p.id

\* add_entry's result r wrote no entry and no highlight row.
NothingCreated(r) ==
    /\ r.entry = entry
    /\ r.textHighlight = textHighlight
    /\ r.nerTextHighlight = nerTextHighlight

\* The payload carries the field the kind's add_entry reads first.
HasRequiredField(kind, payload) ==
    CASE kind = "TC" -> TRUE
      [] kind = "NER" -> ~IsNone(payload.ner_text_highlights)
      [] OTHER -> ~IsNone(payload.score)

\* C1 (as stated): for every project kind, add_entry with an
\* unannotated_source id that identifies no imported text of that project
\* (an id of another project's text included) returns 404 and creates no
\* ProjectEntry and no highlight rows.
C1_WrongSourceIs404 ==
    \A p \in project, sid \in SourceIds, aid \in Tokens :
        \A payload \in Payloads(p.kind) :
            NotASourceOf(p, sid) =>
                LET r == add_entry(p, aid, EntryData(sid, payload))
                IN r.status = 404 /\ NothingCreated(r)

\* C1 (amended): for every project kind, add_entry with an unannotated_source
\* id that identifies no imported text of that project creates no ProjectEntry
\* and no highlight rows, and returns 404, except that a NER payload without
\* ner_text_highlights and a machine-translation payload without a score are
\* answered 400 before the source is looked up.
C1_WrongSourceCreatesNothing ==
    \A p \in project, sid \in SourceIds, aid \in Tokens :
        \A payload \in Payloads(p.kind) :
            NotASourceOf(p, sid) =>
                LET r == add_entry(p, aid, EntryData(sid, payload))
                IN /\ NothingCreated(r)
                   /\ r.status = IF HasRequiredField(p.kind, payload)
                                 THEN 404 ELSE 400

\* C1 witness: every source id names an imported text, entries exist, and
\* create_entry has just answered that the source it was given is not one of
\* its project: the id it was given belongs to a text of the other project.
C1_WrongSourceRefused ==
    /\ resp.op = "create_entry"
    /\ resp.status = 404
    /\ resp.detail = "Unannotated source does not exist in project"
    /\ \A sid \in SourceIds : \E u \in unannotated : u.id = sid
    /\ \E u, v \in unannotated : u.project # v.project

\* C2: in every state reached by project creation, import, add_entry by
\* public and private annotators, entry updates and deletes, the source of
\* every ProjectEntry is an imported text of the entry's own project.
C2_SourceOfSameProject ==
    \A e \in entry :
        \E u \in unannotated : u.id = e.unannotated_source /\ u.project = e.project

\* C2 witness: two projects hold texts, a public and a private annotator
\* have an entry each, and an entry has just been updated.
C2_EntriesAfterUpdate ==
    /\ \E u, v \in unannotated : u.project # v.project
    /\ \E e, f \in entry :
          /\ e.annotator # f.annotator
          /\ \E a, b \in annotator :
                /\ a.id = e.annotator /\ a.type = "public"
                /\ b.id = f.annotator /\ b.type = "private"
    /\ resp.op \in {"update_project_entry", "modify_annotators_entry"}
    /\ resp.status = 200

\* The messages of the return statements of the validation loops.
ValidationReturns ==
    {"Uploaded data is not in a list of dictionaries format",
     "Uploaded data contains category that does not exist in project",
     "Context field provided, but row with index is missing context value",
     "Text field missing from row with index",
     "Reference translation field missing from row with index"}

\* C3: when add_unannotated_entries stops at a row k of the batch (not a
\* dict, text missing, context requested but missing, or a category that is
\* not in the project), the UnannotatedProjectEntry table is what it was
\* before the call, also when the rows before k are valid; for each of these
\* failures the call returns a 400 error.
C3_FailedValidationWritesNothing ==
    \A p \in project, fields \in FieldChoices, data \in Batches(MaxBatch) :
        LET bad == FirstRowError(p, data, fields)
            r == add_unannotated_entries(p, data, fields)
        IN bad # 0 =>
            /\ r.unannotated = unannotated
            /\ r.nextId = nextId
            /\ RowError(p, data[bad], fields) \in ValidationReturns
                    => r.status = 400

\* C3 witness: texts are in the table and an import has just been refused
\* with a 400 that names row index 1, its row 0 having passed.
C3_RefusedAtSecondRow ==
    /\ resp.op = "import_unannotated"
    /\ resp.status = 400
    /\ resp.index = Some(1)
    /\ unannotated # {}

\* A row the project's kind accepts under the named columns.
WellFormed(p, row, fields) ==
    /\ row.dict
    /\ HasKey(row, Some(fields.text_field))
    /\ ~IsNone(fields.context_field) => HasKey(row, fields.context_field)
    /\ (p.kind = "TC" /\ ~IsNone(fields.value_field)) =>
            /\ HasKey(row, fields.value_field)
            /\ \E c \in category :
                    c.project = p.id /\ c.name = Val(GetKey(row, fields.value_field))
    /\ p.kind = "MTA" => HasKey(row, fields.mt_system_translation)

\* C4: add_unannotated_entries on a batch of N well-formed rows returns
\* success for N rows and adds exactly N rows to the table, all of the target
\* project, one per input row with that row's text (and, for MT adequacy,
\* its system translation); every row that was in the table stays as it was.
C4_WellFormedBatchCreatesAll ==
    \A p \in project, fields \in FieldChoices, data \in Batches(MaxBatch) :
        (\A i \in 1..Len(data) : WellFormed(p, data[i], fields)) =>
            LET r == add_unannotated_entries(p, data, fields)
                new == r.unannotated \ unannotated
            IN /\ r.status = 200
               /\ r.count = Some(Len(data))
               /\ unannotated \subseteq r.unannotated
               /\ Cardinality(new) = Len(data)
               /\ \A u \in new : u.project = p.id
               /\ \A i \in 1..Len(data) :
                     \E u \in new :
                        /\ u.id = nextId["unannotated"] + i - 1
                        /\ u.text = Val(data[i].text)
                        /\ p.kind = "MTA" =>
                                u.mt_system_translation = data[i].mt

\* C4 witness: an import of two rows has just succeeded and the adequacy
\* project holds two texts with their system translation.
C4_TwoRowsImported ==
    /\ resp.op = "import_unannotated"
    /\ resp.status = 200
    /\ resp.count = Some(2)
    /\ \E p \in project :
          /\ p.kind = "MTA"
          /\ Cardinality({u \in imported_texts(p.id) :
                            u.mt_system_translation = Some("fu")}) = 2

\* C5 (as stated): the import endpoint, given a text/csv upload of a header
\* and N data rows whose text_field names a column of the header, answers 200
\* for N created entries and the project gains exactly N texts.
C5_CsvImportSucceeds ==
    [][\A url \in Urls, n \in 0..MaxBatch, file_at_path \in BOOLEAN :
          LET file == [content_type |-> "text/csv", is_list |-> FALSE,
                       rows |-> [i \in 1..n |-> CsvRow]]
          IN (/\ ProjectByUrl(url) # {}
              /\ import_unannotated(url, TranslatedFields, file, file_at_path))
             => /\ resp'.status = 200
                /\ resp'.count = Some(n)
                /\ Cardinality(imported_texts(url)') =
                        Cardinality(imported_texts(url)) + n]_vars

\* C6 (as stated): when a classification import is refused because row k
\* names a category that is not in the project, the error carries the row
\* index k.
C6_MissingCategoryNamesIndex ==
    \A p \in project, fields \in FieldChoices, data \in Batches(MaxBatch) :
        LET bad == FirstRowError(p, data, fields)
            r == add_unannotated_entries(p, data, fields)
        IN (/\ p.kind = "TC"
            /\ bad # 0
            /\ r.detail = "Uploaded data contains category that does not exist in project")
           => r.index = Some(bad - 1)

\* The rows the import in progress (or just answered) has written: imports
\* do not overlap, so they are the rows from the id counter it found on.
Written == {u \in unannotated : imp.pc # "idle" /\ u.id >= imp.first}

\* C7 (as stated): a batch import is all-or-nothing also when another
\* request deletes a Category the batch names between the import's validation
\* and its persistence: once the import has answered, the project holds all N
\* rows of the batch or none of them.
C7_ImportAllOrNothing ==
    imp.pc = "done" => Cardinality(Written) \in {0, Len(imp.data)}

\* C7 (amended): once the import has answered, the project holds the rows of
\* a prefix of the batch, in order: all N rows when it answered success, none
\* when validation refused it, and, when persistence stopped on an uncaught
\* Category.DoesNotExist, the rows before the first row whose Category had
\* been deleted in between.
C7_ImportWritesPrefix ==
    imp.pc = "done" =>
        LET k == Cardinality(Written)
        IN /\ k <= Len(imp.data)
           /\ \A j \in 1..k :
                 \E u \in Written :
                    /\ u.id = imp.first + j - 1
                    /\ u.project = imp.project.id
                    /\ u.text = Val(imp.data[j].text)
           /\ imp.status \in {200, 400, 500}
           /\ imp.status = 200 => k = Len(imp.data)
           /\ imp.status = 400 => k = 0
           /\ imp.status = 500 =>
                 /\ imp.detail = "Category.DoesNotExist"
                 /\ k < Len(imp.data)
                 /\ CategoryByName(imp.project.id, Val(imp.data[k + 1].cat)) = {}

\* C7 witness: an import of two rows has answered after persistence stopped
\* on its second row, whose Category was deleted after validation; its first
\* row is in the table.
C7_HalfImported ==
    /\ imp.pc = "done"
    /\ imp.status = 500
    /\ Len(imp.data) = 2
    /\ Cardinality(Written) = 1

\* C8: for every private annotator whose project has no imported text,
\* completion is 100.0, whatever texts, entries and annotators the other
\* projects have.
C8_EmptyProjectIsComplete ==
    \A a \in annotator :
        (a.type = "private" /\ imported_texts(a.project) = {}) =>
            completion(a) = [raised |-> FALSE, value |-> 10000]

\* C8 witness: another project has texts and an entry, there are two
\* annotators, and a private annotator of a project without texts has just
\* been shown with completion 100.0.
C8_ShownComplete ==
    /\ resp.op = "get_project_private_annotator"
    /\ resp.status = 200
    /\ resp.result = Some(10000)
    /\ unannotated # {}
    /\ entry # {}
    /\ Cardinality(annotator) = 2

\* C9 (as stated): for every private annotator whose project has T >= 1
\* imported texts, completion evaluates without error to the percentage J/T
\* rounded to two decimals (here in hundredths of a percent), J being the
\* number of entries the annotator authored in the project.
C9_CompletionIsPercentage ==
    \A a \in annotator :
        LET T == Cardinality(imported_texts(a.project))
            J == Cardinality({e \in entry : e.project = a.project
                                            /\ e.annotator = a.id})
        IN (a.type = "private" /\ T >= 1) =>
            /\ ~completion(a).raised
            /\ completion(a).value = (2 * J * 10000 + T) \div (2 * T)

\* C10: for every private annotator a of project p, the remaining-entries
\* listing holds exactly the imported texts of p that are the source of no
\* entry authored by a, each once: a text judged only by other annotators is
\* listed, and a text a judged twice is left out like one judged once.
C10_RemainingIsUnjudgedByAnnotator ==
    \A a \in annotator :
        a.type = "private" =>
            LET listing == remaining_to_be_annotated(a)
                unjudged == {u \in unannotated :
                               /\ u.project = a.project
                               /\ ~\E e \in entry :
                                     /\ e.annotator = a.id
                                     /\ e.unannotated_source = u.id}
            IN /\ {listing[i] : i \in 1..Len(listing)} = {u.id : u \in unjudged}
               /\ Len(listing) = Cardinality(unjudged)

\* C10 witness: a private annotator has just been listed a text that
\* another annotator has judged and they have not, while a text they
\* judged themselves is left out.
C10_ListedDespiteOthers ==
    /\ resp.op = "get_remaining_entries"
    /\ resp.status = 200
    /\ \E a \in annotator :
          /\ a.type = "private"
          /\ resp.result = Some(remaining_to_be_annotated(a))
          /\ \E u \in imported_texts(a.project) :
                /\ \E i \in 1..Len(Val(resp.result)) : Val(resp.result)[i] = u.id
                /\ \E e \in entry : e.unannotated_source = u.id /\ e.annotator # a.id
          /\ \E e \in entry : e.annotator = a.id

\* The source ids both annotators have judged, and those among them on
\* which some entry of the one and some entry of the other differ in value.
SharedSources(p, a1, a2) ==
    {e.unannotated_source : e \in get_annotators_annotations(p.id, a1.id)}
    \cap {e.unannotated_source : e \in get_annotators_annotations(p.id, a2.id)}

DifferOn(p, a1, a2, sid) ==
    \E e1 \in get_annotators_annotations(p.id, a1.id),
       e2 \in get_annotators_annotations(p.id, a2.id) :
        /\ e1.unannotated_source = sid
        /\ e2.unannotated_source = sid
        /\ values(e1, p.kind) # values(e2, p.kind)

\* C11 (as stated): the disagreement report of two private annotators of a
\* project is empty whenever their entries have equal values on every source
\* id both have judged, and only source ids judged by both are compared.
C11_EqualValuesGiveEmptyReport ==
    \A p \in project :
        \A a1 \in private_annotators(p.id), a2 \in private_annotators(p.id) :
            a1 # a2 =>
                LET r == disagreements(p, a1, a2)
                    ids == common_ids(
                              ById(get_annotators_annotations(p.id, a1.id)),
                              ById(get_annotators_annotations(p.id, a2.id)))
                IN /\ \A i \in 1..Len(ids) : ids[i] \in SharedSources(p, a1, a2)
                   /\ (\A sid \in SharedSources(p, a1, a2) :
                            ~DifferOn(p, a1, a2, sid))
                        => r = [raised |-> "", report |-> <<>>]

\* C12 (as stated): the report of two private annotators has one record per
\* shared source id with differing values and no duplicates; differing on
\* exactly one shared id gives exactly one record, with both values and the
\* text.
C12_OneRecordPerDifference ==
    \A p \in project :
        \A a1 \in private_annotators(p.id), a2 \in private_annotators(p.id) :
            a1 # a2 =>
                LET r == disagreements(p, a1, a2)
                    differing == {sid \in SharedSources(p, a1, a2) :
                                    DifferOn(p, a1, a2, sid)}
                IN /\ r.raised = ""
                   /\ Len(r.report) = Cardinality(differing)

\* The payload lacks the field its kind requires: category-name for
\* classification, ner_text_highlights for NER, the score for the MT kinds.
LacksRequiredField(kind, payload) ==
    CASE kind = "TC" -> IsNone(payload.category_name)
      [] kind = "NER" -> IsNone(payload.ner_text_highlights)
      [] OTHER -> IsNone(payload.score)

\* C13 (as stated): add_entry with a payload lacking the kind's required
\* field answers 400 for every kind and creates no ProjectEntry.
C13_MissingFieldIs400 ==
    \A p \in project, sid \in SourceIds, aid \in Tokens :
        \A payload \in Payloads(p.kind) :
            LacksRequiredField(p.kind, payload) =>
                LET r == add_entry(p, aid, EntryData(sid, payload))
                IN r.status = 400 /\ r.entry = entry

\* A highlight dict without beginning, end or category.
Incomplete(h) == IsNone(h.beginning) \/ IsNone(h.end) \/ IsNone(h.category)

\* The payload carries an incomplete highlight in a list the kind reads:
\* target_text_highlights, and source_text_highlights for adequacy.
HasIncompleteHighlight(kind, payload) ==
    LET target == OptList(payload.target_text_highlights)
        source == IF machine_translation_variation(kind) = "adequacy"
                  THEN OptList(payload.source_text_highlights) ELSE <<>>
    IN \E i \in 1..Len(target \o source) : Incomplete((target \o source)[i])

\* C14 (as stated): add_entry on a machine-translation project with a
\* highlight lacking beginning, end or category is rejected and leaves
\* neither a new ProjectEntry nor a new TextHighlight row.
C14_IncompleteHighlightCreatesNothing ==
    \A p \in project, aid \in Tokens :
        \A u \in imported_texts(p.id), payload \in Payloads(p.kind) :
            (/\ p.kind \in {"MTA", "MTF"}
             /\ ~IsNone(payload.score)
             /\ HasIncompleteHighlight(p.kind, payload)) =>
                LET r == add_entry(p, aid, EntryData(u.id, payload))
                IN r.status # 200 /\ NothingCreated(r)

\* The statistics s list every category of project pid exactly once, each
\* with the number Count(c) for category c.
ListsEachCategoryOnce(s, pid, Count(_)) ==
    /\ s.raised = ""
    /\ Len(s.categories) = Cardinality(categories(pid))
    /\ \A c \in categories(pid) :
          \E i \in 1..Len(s.categories) :
              s.categories[i] = [name |-> c.name, total_entries |-> Count(c)]

\* C15 (as stated): for a text-classification project, get_statistics lists
\* each category of the project exactly once, with total_entries the number
\* of the project's current entries classified with that category.
C15_StatisticsCountEntriesPerCategory ==
    \A p \in project :
        p.kind = "TC" =>
            LET Classified(c) ==
                    Cardinality({e \in entries(p.id) :
                                    e.classification = Some(c.id)})
            IN ListsEachCategoryOnce(get_statistics(p), p.id, Classified)

\* C16 (as stated): for a named-entity-recognition project, get_statistics
\* returns without error, for each category of the project, the number of
\* annotations made with that category.
C16_NERStatisticsCountAnnotations ==
    \A p \in project :
        p.kind = "NER" =>
            LET Annotated(c) ==
                    Cardinality({h \in nerTextHighlight :
                                    /\ h.category = c.id
                                    /\ \E e \in entries(p.id) : h.entry = e.id})
            IN ListsEachCategoryOnce(get_statistics(p), p.id, Annotated)

\* The keys of an exported JSON object, by the project's kind.
JsonKeys(kind) ==
    CASE kind = "TC" -> <<"id", "imported_text_source_id", "text", "category",
                          "preannotation_category">>
      [] kind = "NER" -> <<"id", "imported_text_source_id", "text",
                           "ner_text_highlights">>
      [] kind = "MTA" -> <<"id", "imported_text_source_id",
                           "reference_translation", "mt_system_translation",
                           "adequacy", "preannotation_adequacy">>
      [] OTHER -> <<"id", "imported_text_source_id", "mt_system_translation",
                    "fluency", "preannotation_fluency">>

\* The object obj describes entry e of a project of `kind`: its id, its
\* source's id and raw fields, its annotation value, and the source's
\* pre-annotation under the prefixed key.
Describes(obj, e, kind) ==
    LET u == TheOne({x \in unannotated : x.id = e.unannotated_source})
    IN /\ Keys(obj) = JsonKeys(kind)
       /\ DictGet(obj, "id") = e.id
       /\ DictGet(obj, "imported_text_source_id") = e.unannotated_source
       /\ CASE kind = "MTA" ->
                 /\ DictGet(obj, "reference_translation") = u.text
                 /\ DictGet(obj, "mt_system_translation") = Val(u.mt_system_translation)
                 /\ DictGet(obj, "adequacy") = Val(e.score)
                 /\ DictGet(obj, "preannotation_adequacy") = "No annotation"
            [] kind = "MTF" ->
                 /\ DictGet(obj, "mt_system_translation") = u.text
                 /\ DictGet(obj, "fluency") = Val(e.score)
                 /\ DictGet(obj, "preannotation_fluency") = "No annotation"
            [] kind = "TC" ->
                 /\ DictGet(obj, "text") = u.text
                 /\ \E c \in category : /\ c.id = Val(e.classification)
                                        /\ DictGet(obj, "category") = c.name
                 /\ IF IsNone(u.pre_annotation)
                    THEN DictGet(obj, "preannotation_category") = "No preannotation"
                    ELSE \E c \in category :
                            /\ c.id = Val(u.pre_annotation)
                            /\ DictGet(obj, "preannotation_category") = c.name
            [] OTHER ->
                 /\ DictGet(obj, "text") = u.text
                 /\ Len(DictGet(obj, "ner_text_highlights")) =
                        Cardinality({h \in nerTextHighlight : h.entry = e.id})

\* C17: the JSON export of a project holds exactly one object per entry of
\* that project and none of another project's, each with the entry's id, its
\* source's id and raw fields, its annotation value, and the source's
\* pre-annotation under a key prefixed preannotation_, apart from the live
\* annotation key.
C17_JsonExportOneObjectPerEntry ==
    \A p \in project :
        LET r == ExportJson(p)
            mine == {e \in entry : e.project = p.id}
        IN /\ r.status = 200
           /\ Len(r.body) = Cardinality(mine)
           /\ \A e \in mine :
                 \E i \in 1..Len(r.body) : Describes(r.body[i], e, p.kind)

\* A JSON export was answered for a classification project holding an entry
\* whose category differs from its source's pre-annotation, while another
\* project holds an entry too.
C17_ExportedBesideAnotherProject ==
    /\ resp.op = "export_project"
    /\ resp.detail = "json"
    /\ \E p \in project, q \in project :
          /\ p.kind = "TC"
          /\ q # p
          /\ entries(q.id) # {}
          /\ resp.result = Some(ExportJson(p).body)
          /\ \E e \in entries(p.id) :
                \E u \in unannotated :
                    /\ u.id = e.unannotated_source
                    /\ ~IsNone(u.pre_annotation)
                    /\ u.pre_annotation # e.classification

\* C18 (as stated): the CSV export of a project with n >= 1 entries
\* succeeds for every kind and holds a header row followed by exactly n data
\* rows, one per entry.
C18_CsvExportOneRowPerEntry ==
    \A p \in project :
        entries(p.id) # {} =>
            LET r == ExportCsv(p)
            IN /\ r.status = 200
               /\ Len(r.body) = 1 + Cardinality(entries(p.id))
               /\ \A e \in entries(p.id) :
                     \E i \in 2..Len(r.body) : r.body[i][1] = e.id

\* C19 (as stated, for the exports that are answered): the header of the CSV
\* export of a project is the header of the export of a project of its kind
\* without entries.
C19_CsvHeaderIndependentOfEntries ==
    \A p \in project :
        ExportCsv(p).status = 200 =>
            ExportCsv(p).body[1] = EmptyCsvHeader(p.kind)

\* The keys of an exported object that a re-import of a project of `kind`
\* names as its text_field, value_field and mt_system_translation.
ExportedNames(kind) ==
    CASE kind = "MTA" -> [text_field |-> "reference_translation",
                          value_field |-> "adequacy",
                          mt_system_translation |-> "mt_system_translation"]
      [] kind = "MTF" -> [text_field |-> "mt_system_translation",
                          value_field |-> "fluency",
                          mt_system_translation |-> "mt_system_translation"]
      [] kind = "TC" -> [text_field |-> "text", value_field |-> "category",
                         mt_system_translation |-> "mt_system_translation"]
      [] OTHER -> [text_field |-> "text", value_field |-> "ner_text_highlights",
                   mt_system_translation |-> "mt_system_translation"]

\* The exported object as the uploaded row the import reads, its named keys
\* under the columns text, cat and mt.
AsRow(obj, kind) ==
    LET Lookup(k) == IF DictHas(obj, k) THEN Some(DictGet(obj, k)) ELSE None
    IN Row(TRUE, Lookup(ExportedNames(kind).text_field), None,
           Lookup(ExportedNames(kind).value_field),
           Lookup(ExportedNames(kind).mt_system_translation))

\* The re-import of the JSON export of project p into p itself.
Reimport(p) ==
    LET body == ExportJson(p).body
    IN add_unannotated_entries(
          p, [i \in 1..Len(body) |-> AsRow(body[i], p.kind)],
          [text_field |-> "text", value_field |-> Some("cat"),
           context_field |-> None, mt_system_translation |-> Some("mt")])

\* C20 (as stated): importing the objects of a project's JSON export, with
\* text_field, value_field and mt_system_translation naming the exported
\* keys, into a project of the same kind with the same categories writes one
\* text per object, with the object's raw text and parameter fields and with
\* its category or score as pre-annotation.
C20_ExportImportRoundTrip ==
    \A p \in project :
        (ExportJson(p).status = 200 /\ ExportJson(p).body # <<>>) =>
            LET body == ExportJson(p).body
                r == Reimport(p)
                new == ById(r.unannotated \ unannotated)
            IN /\ r.status = 200
               /\ Len(new) = Len(body)
               /\ \A i \in 1..Len(new) :
                     LET params == parameters(new[i], p.kind)
                         pre == pre_annotations(new[i], p.kind)
                     IN /\ \A j \in 1..Len(params) :
                              DictGet(body[i], params[j][1]) = params[j][2]
                        /\ p.kind # "NER" =>
                              /\ DictGet(pre, ValueKey(p.kind)) # "No annotation"
                              /\ DictGet(pre, ValueKey(p.kind)) =
                                    DictGet(body[i], ValueKey(p.kind))

\* The kind each project_type of ProjectTypes names, in any letter case, by
\* a name or an alias of the four kinds ("" when it names none).
IntendedKind(project_type) ==
    CASE project_type \in {"mtf", "Mtf"} -> "MTF"
      [] project_type = "NER" -> "NER"
      [] OTHER -> ""

\* C21 (as stated): create_project with a project_type that matches, in any
\* letter case, a name or alias of one of the four kinds creates exactly one
\* project of that kind administered by the caller; any other string creates
\* no project and answers that the type is not supported.
C21_CreateProjectDispatch ==
    [][\A user \in Callers, project_type \in ProjectTypes :
          create_project(user, project_type) =>
             IF IntendedKind(project_type) = ""
             THEN /\ project' = project
                  /\ resp'.status = 404
             ELSE /\ resp'.status = 200
                  /\ \E p \in project' \ project :
                        /\ project' = project \cup {p}
                        /\ p.kind = IntendedKind(project_type)
                        /\ p.administrators = {user}]_vars

\* The caller is not in the administrators set of the project at url.
NotAdministrator(user, url) ==
    \E p \in ProjectByUrl(url) : user \notin p.administrators

\* The request was answered 401 and wrote nothing.
Refused401 == resp'.status = 401 /\ UNCHANGED db

\* C22: delete_project, update_project, add_administrator,
\* delete_project_entry, update_project_entry,
\* delete_unannotated_project_entry, invite_annotator and
\* toggle_annotator_status, called by a contributor who is not an
\* administrator of the project, answer 401 and leave every table unchanged.
C22_NonAdministratorIsRefused ==
    [][\A user \in Callers :
          NotAdministrator(user, 1) =>
             /\ \A fk_enforced \in BOOLEAN :
                   delete_project(user, 1, fk_enforced) => Refused401
             /\ update_project(user, 1, [name |-> Some("renamed")]) => Refused401
             /\ add_administrator(user, 1, "anon@ucl.ac.uk") => Refused401
             /\ delete_project_entry(user, 1, 1) => Refused401
             /\ update_project_entry(user, 1, 1,
                    [classification |-> Some("category2"), adequacy |-> Some(3),
                     fluency |-> Some(3)]) => Refused401
             /\ delete_unannotated_project_entry(user, 1, 1) => Refused401
             /\ invite_annotator(user, 1,
                    [username |-> "ann1", email |-> "ann1@ucl.ac.uk"]) => Refused401
             /\ \A token \in Tokens, annotator_status \in BOOLEAN :
                   toggle_annotator_status(user, 1, token, annotator_status)
                      => Refused401]_vars

\* C22 witness: a project with a judged text and an invited annotator has
\* just refused a request of the contributor who does not administer it.
C22_RefusedWithDataPresent ==
    /\ resp.status = 401
    /\ resp.op = "delete_project"
    /\ NotAdministrator("anon", 1)
    /\ entries(1) # {}
    /\ private_annotators(1) # {}

\* The account of the annotator with this token is inactive.
Inactive(token) ==
    \E a \in AnnotatorByToken(token) :
        \E c \in account : c.username = a.contributor /\ ~c.is_active

\* The request was not served (any answer but 200) and wrote nothing.
RefusedUnchanged == resp'.status # 200 /\ UNCHANGED db

\* C23 (as stated): while the account of a private annotator is inactive,
\* every request that presents the annotator's token (create entry, list
\* remaining, modify entry or highlight) is refused and changes no state.
C23_InactiveTokenIsRefused ==
    [][\A token \in Tokens :
          Inactive(token) =>
             /\ \A payload \in TokenPayloads(KindAt(1)) :
                   TokenRequest(token,
                       create_private_annotators_entry(
                           token, [unannotated_source |-> 1, payload |-> payload]))
                      => RefusedUnchanged
             /\ TokenRequest(token, get_remaining_entries(token))
                   => RefusedUnchanged
             /\ \A eid \in 1..MaxTokenEntries, patch_data \in EntryPatches :
                   TokenRequest(token,
                       modify_annotators_entry(token, eid, patch_data))
                      => RefusedUnchanged
             /\ \A highlight_id \in HighlightIds :
                   TokenRequest(token,
                       modify_annotators_highlight(
                           token, [highlight_id |-> highlight_id,
                                   classification |-> "Addition"]))
                      => RefusedUnchanged]_vars

\* The entry eid was written by another annotator than the one with this
\* token.
EntryOfAnother(token, eid) ==
    \E a \in AnnotatorByToken(token), e \in entry :
        e.id = eid /\ e.annotator # a.id

\* The highlight is linked to an entry of another annotator than the one
\* with this token.
HighlightOfAnother(token, highlight_id) ==
    \E h \in textHighlight :
        h.id = highlight_id /\ EntryOfAnother(token, h.entry)

\* The request failed as not found or unauthorized; entries and highlights
\* are as they were.
FailedLeavingRows ==
    /\ resp'.status \in {401, 404}
    /\ UNCHANGED <<entry, textHighlight, nerTextHighlight>>

\* C24 (as stated): modify_annotators_entry, modify_annotators_highlight and
\* delete_annotators_highlight with the token of annotator A, aimed at an
\* entry or highlight of another annotator B, fail with NotFound or
\* Unauthorized and leave B's entries and highlights unchanged.
C24_OtherAnnotatorsRowsAreSafe ==
    [][\A token \in Tokens :
          /\ \A eid \in 1..MaxTokenEntries, patch_data \in EntryPatches :
                EntryOfAnother(token, eid) =>
                   (TokenRequest(token,
                        modify_annotators_entry(token, eid, patch_data))
                       => FailedLeavingRows)
          /\ \A highlight_id \in HighlightIds :
                HighlightOfAnother(token, highlight_id) =>
                   /\ TokenRequest(token,
                          modify_annotators_highlight(
                              token, [highlight_id |-> highlight_id,
                                      classification |-> "Addition"]))
                         => FailedLeavingRows
                   /\ TokenRequest(token,
                          delete_annotators_highlight(token, highlight_id))
                         => FailedLeavingRows]_vars

\* Every category, imported text, entry and private annotator belongs to a
\* project that exists, and every entry judges an imported text that exists.
RowsReferenceExistingRows ==
    /\ \A c \in category : ProjectByUrl(c.project) # {}
    /\ \A u \in unannotated : ProjectByUrl(u.project) # {}
    /\ \A a \in annotator : a.type = "private" => ProjectByUrl(a.project) # {}
    /\ \A e \in entry :
          /\ ProjectByUrl(e.project) # {}
          /\ \E u \in unannotated : u.id = e.unannotated_source

\* The rows of every project but the one at url.
RowsOfOthers(url, categories_, texts, entries_, annotators) ==
    <<{c \in categories_ : c.project # url},
      {u \in texts : u.project # url},
      {e \in entries_ : e.project # url},
      {a \in annotators : a.type = "private" => a.project # url}>>

\* C25: a delete_project that succeeds leaves no category, imported text,
\* entry or private annotator of the deleted project, a
\* delete_unannotated_project_entry that succeeds leaves no entry that
\* judged the deleted text, the rows of other projects are untouched by
\* both, and so every such row references a project and a text that exist.
C25_DeletesCascade ==
    [][/\ RowsReferenceExistingRows'
       /\ (resp'.op = "delete_project" /\ resp'.status = 200) =>
             \A url \in EntryUrls, fk_enforced \in BOOLEAN :
                delete_project("admin", url, fk_enforced)
                   => /\ categories(url)' = {}
                      /\ imported_texts(url)' = {}
                      /\ entries(url)' = {}
                      /\ private_annotators(url)' = {}
                      /\ RowsOfOthers(url, category, unannotated, entry, annotator)'
                            = RowsOfOthers(url, category, unannotated, entry,
                                           annotator)
       /\ (resp'.op = "delete_unannotated_project_entry" /\ resp'.status = 200) =>
             \A url \in EntryUrls, sid \in SourceIds :
                delete_unannotated_project_entry("admin", url, sid)
                   => /\ \A e \in entry' : e.unannotated_source # sid
                      /\ \A e \in entry :
                            e.unannotated_source # sid => e \in entry'
                      /\ unannotated' = unannotated \ GetSource(url, sid)
                      /\ UNCHANGED <<project, category, annotator>>]_vars

\* C25 witness: a project was deleted while another project keeps its
\* imported text and the entry judging it.
C25_DeletedBesideAnotherProject ==
    /\ resp.op = "delete_project"
    /\ resp.status = 200
    /\ ProjectByUrl(1) = {}
    /\ nextId["unannotated"] > Cardinality(unannotated) + 1
    /\ imported_texts(2) # {}
    /\ entries(2) # {}

\* The row with this id among rows.
EntryById(rows, eid) == CHOOSE e \in rows : e.id = eid

\* What the claim says of an update of entry eid with the category name
\* `name`: an error and nothing changed when the name is missing or names no
\* category of the entry's project; otherwise the entry is classified with
\* that category of its project and no other entry changes.
ClassificationUpdated(eid, name) ==
    LET e == EntryById(entry, eid)
    IN IF IsNone(name) \/ CategoryByName(e.project, Val(name)) = {}
       THEN /\ resp'.status \in {400, 404}
            /\ entry' = entry
       ELSE /\ resp'.status = 200
            /\ \E c \in CategoryByName(e.project, Val(name)) :
                  entry' = (entry \ {e}) \cup {[e EXCEPT !.classification = Some(c.id)]}

\* C26 (as stated): updating a text-classification entry, by its project's
\* administrator or by the private annotator who wrote it, with no
\* classification or with a category name its project does not have
\* answers 400 / 404 and leaves the classification; a successful update sets
\* it to the category of the entry's project with the requested name and
\* changes no other entry.
C26_ClassificationUpdate ==
    [][KindAt(1) = "TC" =>
          \A eid \in 1..MaxUpdatedEntries :
             /\ \A update_data \in UpdateData :
                   (/\ \E e \in entries(1) : e.id = eid
                    /\ update_project_entry("admin", 1, eid, update_data))
                      => ClassificationUpdated(eid, update_data.classification)
             /\ \A token \in Tokens, patch_data \in PatchData :
                   (/\ \E a \in AnnotatorByToken(token) :
                          \E e \in get_annotators_annotations(a.project, a.id) :
                             e.id = eid
                    /\ modify_annotators_entry(token, eid, patch_data))
                      => ClassificationUpdated(eid, patch_data.category_name)]_vars

\* The category row cid exists and belongs to project pid.
CategoryOf(cid, pid) == \E c \in category : c.id = cid /\ c.project = pid

\* C27 (as stated): in every reachable state the classification of every
\* entry, the category of every NER highlight and the pre_annotation of
\* every imported text is a Category that exists and belongs to the same
\* project; delete_classification_category leaves no entry or imported text
\* pointing at a deleted category.
C27_CategoryReferencesExist ==
    /\ \A e \in entry :
          ~IsNone(e.classification) => CategoryOf(Val(e.classification), e.project)
    /\ \A u \in unannotated :
          ~IsNone(u.pre_annotation) => CategoryOf(Val(u.pre_annotation), u.project)
    /\ \A h \in nerTextHighlight :
          /\ \E c \in category : c.id = h.category
          /\ \A e \in entry : h.entry = e.id => CategoryOf(h.category, e.project)

\* C30 (as stated): delete_classification_category of a category of a
\* classification project, called by a contributor who is not an
\* administrator of the project, answers 401 and leaves the project's
\* categories unchanged.
C30_OnlyAdministratorDeletesCategory ==
    [][\A user \in Callers :
          (NotAdministrator(user, 1) /\ KindAt(1) = "TC") =>
             \A c \in categories(1), fk_enforced \in BOOLEAN :
                delete_classification_category(user, 1, c.id, fk_enforced)
                   => resp'.status = 401 /\ category' = category]_vars

\* C28 (as stated): for every project and contributor there is at most one
\* PrivateAnnotator, and no two PrivateAnnotators share a token, after any
\* interleaving of invite_annotator requests, including two for the same
\* contributor and project that both pass the 'already invited' test before
\* either writes its row.
C28_OneAnnotatorPerContributor ==
    \A a, b \in {x \in annotator : x.type = "private"} :
        a # b => /\ ~(a.project = b.project /\ a.contributor = b.contributor)
                 /\ a.token # b.token

\* C29 (as stated): updating a machine-translation entry with a supplied
\* adequacy (or fluency) v sets the entry's score to v for every numeric v,
\* 0 included; with the field omitted the score stays; the entry's
\* project, source and annotator are unchanged either way.
C29_ScoreUpdate ==
    \A p \in project :
        p.kind \in {"MTA", "MTF"} =>
            \A e \in entries(p.id), update_data \in UpdateData :
                LET r == update_with_data(e, p.kind, update_data)
                    v == IF p.kind = "MTA" THEN update_data.adequacy
                         ELSE update_data.fluency
                IN /\ r.status = 200
                   /\ r.entry.score = IF IsNone(v) THEN e.score ELSE v
                   /\ r.entry.project = e.project
                   /\ r.entry.unannotated_source = e.unannotated_source
                   /\ r.entry.annotator = e.annotator

====
